---- MODULE Spec2Model ----
(***************************************************************************)
(* Model of the application state manager of the Argo CD application       *)
(* controller (controller/state.go, kept as src/unnamed/part_000):         *)
(* CompareAppState with its grace-period map repoErrorCache, the ownership *)
(* check isSelfReferencedObj and the sync status classification.           *)
(*                                                                         *)
(* Objects (unstructured.Unstructured pointers) are records; nil is the    *)
(* record Nil.  Object names are sequences of characters, other strings    *)
(* are strings, the empty string included.                                 *)
(***************************************************************************)
EXTENDS Integers, Sequences, FiniteSets, TLC

VARIABLES
  repoErrorCache,  \* appStateManager.repoErrorCache: key -> first-failure time, or NoEntry
  now,             \* the wall clock read by time.Now() and time.Since()
  last,            \* the CompareAppState call that returned last, with its inputs
  own,             \* the isSelfReferencedObj call under study, with its inputs
  fn,              \* the call of a function of the file under study, with its inputs
  pc,              \* concurrent passes: each worker's position in CompareAppState
  loaded,          \* concurrent passes: what repoErrorCache.Load returned to the worker
  actor            \* concurrent passes: the application whose pass took the last step

vars == <<repoErrorCache, now, last, own, fn, pc, loaded, actor>>

----------------------------------------------------------------------------
(* Values *)

Nil == [nil |-> TRUE]

TrackingMethodLabel == "label"
TrackingMethodAnnotation == "annotation"
TrackingMethodAnnotationAndLabel == "annotation+label"
TrackingMethods ==
  {TrackingMethodLabel, TrackingMethodAnnotation, TrackingMethodAnnotationAndLabel}

NamespaceKind == "Namespace"

SyncStatusCodeUnknown == "Unknown"
SyncStatusCodeSynced == "Synced"
SyncStatusCodeOutOfSync == "OutOfSync"
HealthStatusUnknown == "Unknown"

\* An object: identity (a name is a sequence of characters, <<>> the empty
\* name), the class its hook annotations put it in ("plain"; "hook": isHook;
\* "ignored": ignore.Ignore, which is a hook too; "skip": hookutil.Skip),
\* whether it carries compare-options IgnoreExtraneous, the parsed tracking
\* annotation (Nil when absent or unparseable) and the app instance label
\* (NoApp when absent).
Obj(g, k, ns, n, cls, ext, tracking, label) ==
  [group |-> g, kind |-> k, namespace |-> ns, name |-> n, generateName |-> <<>>,
   cls |-> cls, ext |-> ext, tracking |-> tracking, label |-> label]

\* An application instance name as the tracking metadata records it: the
\* application's name, qualified by its namespace unless that is the
\* controller's own. NoApp is the empty string.
NoApp == [Namespace |-> "", Name |-> ""]

\* argo.AppInstanceValue
AppInstanceValue(app, g, k, ns, n) ==
  [ApplicationName |-> app, Group |-> g, Kind |-> k, Namespace |-> ns, Name |-> n]

----------------------------------------------------------------------------
(* Ownership check *)

\* argo.UnstructuredToAppInstanceValue(un, appName, namespace)
UnstructuredToAppInstanceValue(un, appName, namespace) ==
  AppInstanceValue(appName, un.group, un.kind,
                   IF un.namespace = "" THEN namespace ELSE un.namespace, un.name)

\* ResourceTracking.GetAppInstance(un, trackingMethod, installationID): the
\* parsed tracking annotation, nil for label tracking or when there is none.
GetAppInstance(un, trackingMethod) ==
  IF trackingMethod = TrackingMethodLabel THEN Nil ELSE un.tracking

\* ResourceTracking.GetAppName(un, key, trackingMethod, installationID)
GetAppName(un, trackingMethod) ==
  CASE trackingMethod = TrackingMethodLabel -> un.label
    [] trackingMethod = TrackingMethodAnnotation ->
         IF un.tracking = Nil THEN NoApp ELSE un.tracking.ApplicationName
    [] OTHER ->
         IF un.tracking = Nil THEN un.label ELSE un.tracking.ApplicationName

\* Faulty variant: the namespace must match exactly, a cluster-scoped live object
\* (empty namespace) no longer passes
isSelfReferencedAivStrictNs(obj, aiv) ==
  /\ obj.namespace = aiv.Namespace
  /\ obj.name = aiv.Name
  /\ obj.group = aiv.Group
  /\ obj.kind = aiv.Kind

\* func isSelfReferencedObj(obj, aiv)
isSelfReferencedAiv(obj, aiv) ==
  /\ (obj.namespace = aiv.Namespace \/ obj.namespace = "")
  /\ obj.name = aiv.Name
  /\ obj.group = aiv.Group
  /\ obj.kind = aiv.Kind

\* func (m *appStateManager) isSelfReferencedObj(live, config, appName, trackingMethod, installationID)
isSelfReferencedObj(live, config, appName, trackingMethod) ==
  IF live = Nil THEN TRUE
  ELSE IF trackingMethod = TrackingMethodLabel THEN TRUE
  ELSE IF config # Nil
    THEN isSelfReferencedAiv(live, UnstructuredToAppInstanceValue(config, appName, ""))
  ELSE LET appInstance == GetAppInstance(live, trackingMethod)
       IN  IF appInstance # Nil THEN isSelfReferencedAiv(live, appInstance) ELSE TRUE

----------------------------------------------------------------------------
(* Applications, the cluster's scoping information, the project *)

\* appStateManager.namespace: the controller's own namespace
ControllerNamespace == "argocd"

\* app.Spec.Destination.Namespace (the same for every application modelled)
DestinationNamespace == "dest"

\* The characters of DestinationNamespace, for comparing it with a name
DestinationNamespaceName == <<"d", "e", "s", "t">>

\* app.InstanceName(m.namespace)
InstanceName(app) ==
  [Namespace |-> IF app.Namespace = ControllerNamespace THEN "" ELSE app.Namespace,
   Name |-> app.Name]

\* app.GetName()
GetName(app) == [Namespace |-> "", Name |-> app.Name]

\* kubeutil.ResourceKey and kubeutil.GetResourceKey(obj)
ResourceKey(g, k, ns, n) == [Group |-> g, Kind |-> k, Namespace |-> ns, Name |-> n]
GetResourceKey(obj) == ResourceKey(obj.group, obj.kind, obj.namespace, obj.name)
NoKey == ResourceKey("", "", "", <<>>)

\* The kinds the destination cluster serves cluster-scoped.
ClusterScopedKinds == {NamespaceKind}

\* kubeutil.IsNamespacedOrUnknown(infoProvider, gk): infoProvider is the
\* cluster cache ("cache") or, when the cache cannot be had,
\* resourceInfoProviderStub ("stub"), for which nothing is namespaced.
IsNamespacedOrUnknown(infoProvider, kind) ==
  IF infoProvider = "stub" THEN FALSE ELSE kind \notin ClusterScopedKinds

\* project.IsGroupKindPermitted(gk, namespaced): the project's
\* NamespaceResourceBlacklist applies to namespaced kinds only.
IsGroupKindPermitted(blacklist, kind, namespaced) ==
  ~(namespaced /\ kind \in blacklist)

\* isManagedNamespace(ns, app); managed: app.Spec.SyncPolicy has ManagedNamespaceMetadata
isManagedNamespace(ns, managed) ==
  /\ ns # Nil
  /\ ns.kind = NamespaceKind
  /\ ns.name = DestinationNamespaceName
  /\ managed

\* ResourceTracking.SetAppInstance(un, key, val, namespace, trackingMethod, installationID)
SetAppInstance(un, val, namespace, trackingMethod) ==
  CASE trackingMethod = TrackingMethodLabel -> [un EXCEPT !.label = val]
    [] trackingMethod = TrackingMethodAnnotation ->
         [un EXCEPT !.tracking = UnstructuredToAppInstanceValue(un, val, namespace)]
    [] OTHER ->
         [un EXCEPT !.tracking = UnstructuredToAppInstanceValue(un, val, namespace),
                    !.label = val]

\* v1alpha1.ApplicationCondition: its type, its message's fixed text and the
\* resource, count and application the message names.
ApplicationConditionComparisonError == "ComparisonError"
ApplicationConditionSharedResourceWarning == "SharedResourceWarning"
ApplicationConditionRepeatedResourceWarning == "RepeatedResourceWarning"
ApplicationConditionExcludedResourceWarning == "ExcludedResourceWarning"
ApplicationConditionInvalidSpecError == "InvalidSpecError"
ApplicationConditionUnknownError == "UnknownError"

Condition(type, msg, key, count, other) ==
  [Type |-> type, Message |-> msg, Key |-> key, Count |-> count, Other |-> other]

ComparisonError(msg) ==
  Condition(ApplicationConditionComparisonError, msg, NoKey, 0, NoApp)

----------------------------------------------------------------------------
(* Normalisation of the target objects *)

Reverse(s) == [i \in 1..Len(s) |-> s[Len(s) + 1 - i]]

\* normalizeClusterScopeTracking, from index i down to 1: [objs, err].
\* setAppInstanceErr: the names of the objects on which the setAppInstance
\* callback fails.
RECURSIVE normalizeFrom(_, _, _, _, _, _)
normalizeFrom(targetObjs, i, infoProvider, val, trackingMethod, setAppInstanceErr) ==
  IF i = 0 THEN [objs |-> targetObjs, err |-> FALSE]
  ELSE LET targetObj == targetObjs[i] IN
    IF \/ targetObj = Nil
       \/ IsNamespacedOrUnknown(infoProvider, targetObj.kind)
       \/ targetObj.namespace = ""
    THEN normalizeFrom(targetObjs, i - 1, infoProvider, val, trackingMethod, setAppInstanceErr)
    ELSE LET cleared == [targetObj EXCEPT !.namespace = ""] IN
      IF targetObj.name \in setAppInstanceErr
      THEN [objs |-> [targetObjs EXCEPT ![i] = cleared], err |-> TRUE]
      ELSE normalizeFrom(
             [targetObjs EXCEPT ![i] =
                SetAppInstance(cleared, val, DestinationNamespace, trackingMethod)],
             i - 1, infoProvider, val, trackingMethod, setAppInstanceErr)

\* Faulty variant: the namespace of every cluster-scoped object is cleared and
\* no annotation is regenerated
normalizeClusterScopeTrackingClearsOnly(targetObjs, infoProvider, val, trackingMethod, setAppInstanceErr) ==
  [objs |-> [i \in 1..Len(targetObjs) |->
               IF targetObjs[i] = Nil \/ IsNamespacedOrUnknown(infoProvider, targetObjs[i].kind)
               THEN targetObjs[i]
               ELSE [targetObjs[i] EXCEPT !.namespace = ""]],
   err |-> FALSE]

normalizeClusterScopeTracking(targetObjs, infoProvider, val, trackingMethod, setAppInstanceErr) ==
  normalizeFrom(targetObjs, Len(targetObjs), infoProvider, val, trackingMethod, setAppInstanceErr)

\* The decimal digits of a natural number, as characters (fmt's %d).
Digit(d) == <<"0", "1", "2", "3", "4", "5", "6", "7", "8", "9">>[d + 1]
RECURSIVE Digits(_)
Digits(n) == IF n < 10 THEN <<Digit(n)>> ELSE Digits(n \div 10) \o <<Digit(n % 10)>>

\* DeduplicateTargetObjects, first loop: object i (1-based here, i-1 in the
\* code) with its namespace set, and the key it is filed under.
dedupNormalized(namespace, obj, infoProvider) ==
  IF ~IsNamespacedOrUnknown(infoProvider, obj.kind) THEN [obj EXCEPT !.namespace = ""]
  ELSE IF obj.namespace = "" THEN [obj EXCEPT !.namespace = namespace]
  ELSE obj

dedupKey(namespace, obj, i, infoProvider) ==
  LET key == GetResourceKey(dedupNormalized(namespace, obj, infoProvider)) IN
  IF key.Name = <<>> /\ obj.generateName # <<>>
  THEN [key EXCEPT !.Name = obj.generateName \o Digits(i - 1)]
  ELSE key

\* Faulty variant: of the objects filed under one key the first is kept
DeduplicateTargetObjectsKeepsFirst(namespace, objs, infoProvider, mapOrder) ==
  LET idx == {i \in 1..Len(objs) : objs[i] # Nil}
      keyAt(i) == dedupKey(namespace, objs[i], i, infoProvider)
      targets(i) == {j \in idx : keyAt(j) = keyAt(i)}
      isFirst(i) == \A j \in targets(i) : j >= i
      kept == SelectSeq([i \in 1..Len(objs) |-> i], LAMBDA i : i \in idx /\ isFirst(i))
      result == [n \in 1..Len(kept) |-> dedupNormalized(namespace, objs[kept[n]], infoProvider)]
  IN [objs |-> IF mapOrder = "rev" THEN Reverse(result) ELSE result,
      conditions |->
        {Condition(ApplicationConditionRepeatedResourceWarning,
                   "appeared multiple times among application resources",
                   keyAt(i), Cardinality(targets(i)), NoApp) :
           i \in {j \in idx : isFirst(j) /\ Cardinality(targets(j)) > 1}}]

\* DeduplicateTargetObjects(namespace, objs, infoProvider): [objs, conditions].
\* The result follows the iteration order of the map targetByKey, which Go
\* leaves open: mapOrder "fwd" is the order of each key's last object,
\* "rev" the reverse.
DeduplicateTargetObjects(namespace, objs, infoProvider, mapOrder) ==
  LET idx == {i \in 1..Len(objs) : objs[i] # Nil}
      keyAt(i) == dedupKey(namespace, objs[i], i, infoProvider)
      targets(i) == {j \in idx : keyAt(j) = keyAt(i)}
      isLast(i) == \A j \in targets(i) : j <= i
      kept == SelectSeq([i \in 1..Len(objs) |-> i], LAMBDA i : i \in idx /\ isLast(i))
      result == [n \in 1..Len(kept) |-> dedupNormalized(namespace, objs[kept[n]], infoProvider)]
  IN [objs |-> IF mapOrder = "rev" THEN Reverse(result) ELSE result,
      conditions |->
        {Condition(ApplicationConditionRepeatedResourceWarning,
                   "appeared multiple times among application resources",
                   keyAt(i), Cardinality(targets(i)), NoApp) :
           i \in {j \in idx : isLast(j) /\ Cardinality(targets(j)) > 1}}]

----------------------------------------------------------------------------
(* Live objects and reconciliation *)

\* project.IsLiveResourcePermitted(un, destCluster, projectClusters):
\* [permitted, err]. The group-kind is checked first, as namespaced when the
\* object has a namespace; the destination check of a namespaced object
\* needs the project's clusters and fails when they cannot be listed.
IsLiveResourcePermitted(blacklist, un, permErr) ==
  IF ~IsGroupKindPermitted(blacklist, un.kind, un.namespace # "")
  THEN [permitted |-> FALSE, err |-> FALSE]
  ELSE IF un.namespace # "" /\ permErr THEN [permitted |-> FALSE, err |-> TRUE]
  ELSE [permitted |-> TRUE, err |-> FALSE]

\* The namespace synthesized for a managed namespace that is live and not
\* among the targets (corev1.Namespace named after the live object, passed
\* through syncNamespace).
managedNs(liveObj) == Obj("", NamespaceKind, "", liveObj.name, "plain", FALSE, Nil, NoApp)

\* splitHooks of sync.Reconcile: hooks and ignored objects are no targets
isReconcileHook(obj) == obj.cls \in {"hook", "ignored"}

\* sync.Reconcile, first loop: the live object matched to each target, the
\* matched one leaving the map. liveObjs is what is left of the map.
RECURSIVE reconcileLive(_, _, _, _)
reconcileLive(targetObjs, liveObjs, namespace, infoProvider) ==
  IF targetObjs = <<>> THEN [managed |-> <<>>, rest |-> liveObjs]
  ELSE LET obj == Head(targetObjs)
           ns == IF obj.namespace = "" THEN namespace ELSE obj.namespace
           key == ResourceKey(obj.group, obj.kind,
                              IF IsNamespacedOrUnknown(infoProvider, obj.kind) THEN ns ELSE "",
                              obj.name)
           hit == SelectSeq(liveObjs, LAMBDA l : GetResourceKey(l) = key)
           left == SelectSeq(liveObjs, LAMBDA l : GetResourceKey(l) # key)
           tail == reconcileLive(Tail(targetObjs), left, namespace, infoProvider)
       IN [managed |-> <<IF hit = <<>> THEN Nil ELSE hit[1]>> \o tail.managed,
           rest |-> tail.rest]

\* sync.Reconcile(targetObjs, liveObjByKey, namespace, resInfo): the
\* index-aligned lists Target and Live. liveObjs lists the map in the order
\* its iteration takes.
Reconcile(targetObjs, liveObjs, namespace, infoProvider) ==
  LET targets == SelectSeq(targetObjs, LAMBDA o : ~isReconcileHook(o))
      r == reconcileLive(targets, liveObjs, namespace, infoProvider)
  IN [Target |-> targets \o [i \in 1..Len(r.rest) |-> Nil],
      Live |-> r.managed \o r.rest]

----------------------------------------------------------------------------
(* Sync status classification: the loop over reconciliation.Target *)

isHook(obj) == obj.cls \in {"hook", "ignored"}
Ignore(obj) == obj.cls = "ignored"
Skip(obj) == obj.cls = "skip"
HasIgnoreExtraneous(obj) == obj.ext

\* diffResults.Diffs[i].Modified; the default DiffResult when the list is
\* shorter (diffErr: StateDiffs failed and the list is empty)
diffModified(targetObj, liveObj, modified, diffErr) ==
  /\ ~diffErr
  /\ targetObj # Nil
  /\ liveObj # Nil
  /\ liveObj.name \in modified

\* Faulty variant: a managed namespace without a live counterpart is classified as
\* any other missing resource
resourceCaseNoManagedNs(targetObj, liveObj, obj, selfReferenced, managed, isModified) ==
  IF isHook(obj) \/ Ignore(obj) \/ (targetObj # Nil /\ Skip(targetObj)) \/ ~selfReferenced
    THEN "skipped"
  ELSE IF isModified \/ targetObj = Nil \/ liveObj = Nil
    THEN "outOfSync"
  ELSE "synced"

\* Faulty variant: a live object that fails the ownership check is classified as
\* any other
resourceCaseForeignClassified(targetObj, liveObj, obj, selfReferenced, managed, isModified) ==
  LET isManagedNs == isManagedNamespace(targetObj, managed) /\ liveObj = Nil IN
  IF isHook(obj) \/ Ignore(obj) \/ (targetObj # Nil /\ Skip(targetObj))
    THEN "skipped"
  ELSE IF ~isManagedNs /\ (isModified \/ targetObj = Nil \/ liveObj = Nil)
    THEN "outOfSync"
  ELSE "synced"

\* The switch of the loop: "skipped" leaves the status empty and the
\* aggregate alone, "outOfSync" and "synced" set the status.
resourceCase(targetObj, liveObj, obj, selfReferenced, managed, isModified) ==
  LET isManagedNs == isManagedNamespace(targetObj, managed) /\ liveObj = Nil IN
  IF isHook(obj) \/ Ignore(obj) \/ (targetObj # Nil /\ Skip(targetObj)) \/ ~selfReferenced
    THEN "skipped"
  ELSE IF ~isManagedNs /\ (isModified \/ targetObj = Nil \/ liveObj = Nil)
    THEN "outOfSync"
  ELSE "synced"

\* Faulty variant: the ignore-extraneous annotation excuses nothing
flipsAggregateUnexcused(targetObj, liveObj, obj, case) ==
  case = "outOfSync"

\* Whether the pair sets syncCode to OutOfSync
flipsAggregate(targetObj, liveObj, obj, case) ==
  /\ case = "outOfSync"
  /\ LET needsPruning == targetObj = Nil /\ liveObj # Nil
     IN  ~needsPruning \/ ~HasIgnoreExtraneous(obj)

\* m.liveStateCache.IsNamespaced(destCluster, gk) with err == nil
liveStateIsNamespaced(kind, infoErr) == ~infoErr /\ kind \notin ClusterScopedKinds

\* Faulty variant: a failure to load objects no longer overrides the status computed
\* for the pair
resourceStatusKeepsComputed(case, kind, blacklist, infoErr, failedToLoadObjs) ==
  IF ~IsGroupKindPermitted(blacklist, kind, liveStateIsNamespaced(kind, infoErr))
    THEN SyncStatusCodeUnknown
  ELSE CASE case = "outOfSync" -> SyncStatusCodeOutOfSync
         [] case = "synced" -> SyncStatusCodeSynced
         [] OTHER -> ""

\* Faulty variant: the permission override leaves alone what the switch left
\* without a status
resourceStatusOverridesClassified(case, kind, blacklist, infoErr, failedToLoadObjs) ==
  IF failedToLoadObjs THEN SyncStatusCodeUnknown
  ELSE CASE case = "outOfSync" /\ ~IsGroupKindPermitted(blacklist, kind, liveStateIsNamespaced(kind, infoErr))
              -> SyncStatusCodeUnknown
         [] case = "synced" /\ ~IsGroupKindPermitted(blacklist, kind, liveStateIsNamespaced(kind, infoErr))
              -> SyncStatusCodeUnknown
         [] case = "outOfSync" -> SyncStatusCodeOutOfSync
         [] case = "synced" -> SyncStatusCodeSynced
         [] OTHER -> ""

\* resState.Status of one pair
resourceStatus(case, kind, blacklist, infoErr, failedToLoadObjs) ==
  IF failedToLoadObjs THEN SyncStatusCodeUnknown
  ELSE IF ~IsGroupKindPermitted(blacklist, kind, liveStateIsNamespaced(kind, infoErr))
    THEN SyncStatusCodeUnknown
  ELSE CASE case = "outOfSync" -> SyncStatusCodeOutOfSync
         [] case = "synced" -> SyncStatusCodeSynced
         [] OTHER -> ""

\* v1alpha1.ResourceStatus (the zero value for a pair of two nils)
ZeroResourceStatus ==
  [Group |-> "", Kind |-> "", Namespace |-> "", Name |-> <<>>,
   Status |-> "", Hook |-> FALSE, RequiresPruning |-> FALSE]

resState(targetObj, liveObj, appName, trackingMethod, managed, modified, diffErr, blacklist, infoErr, failedToLoadObjs) ==
  LET obj == IF liveObj = Nil THEN targetObj ELSE liveObj IN
  IF obj = Nil THEN ZeroResourceStatus
  ELSE LET selfReferenced == isSelfReferencedObj(liveObj, targetObj, appName, trackingMethod)
           case == resourceCase(targetObj, liveObj, obj, selfReferenced, managed,
                                diffModified(targetObj, liveObj, modified, diffErr))
       IN [Group |-> obj.group, Kind |-> obj.kind, Namespace |-> obj.namespace,
           Name |-> obj.name,
           Status |-> resourceStatus(case, obj.kind, blacklist, infoErr, failedToLoadObjs),
           Hook |-> isHook(obj),
           RequiresPruning |-> targetObj = Nil /\ liveObj # Nil /\ selfReferenced]

\* syncCode after the loop and the final override
pairFlips(targetObj, liveObj, appName, trackingMethod, managed, modified, diffErr) ==
  LET obj == IF liveObj = Nil THEN targetObj ELSE liveObj IN
  /\ obj # Nil
  /\ flipsAggregate(targetObj, liveObj, obj,
       resourceCase(targetObj, liveObj, obj,
                    isSelfReferencedObj(liveObj, targetObj, appName, trackingMethod),
                    managed, diffModified(targetObj, liveObj, modified, diffErr)))

\* Faulty variant: a change of the managed-namespace metadata is looked at
\* before the failure to load objects
aggregateSyncCodeMetadataFirst(anyFlip, failedToLoadObjs, changedManagedNamespaceMetadata) ==
  IF changedManagedNamespaceMetadata THEN SyncStatusCodeOutOfSync
  ELSE IF failedToLoadObjs THEN SyncStatusCodeUnknown
  ELSE IF anyFlip THEN SyncStatusCodeOutOfSync
  ELSE SyncStatusCodeSynced

aggregateSyncCode(anyFlip, failedToLoadObjs, changedManagedNamespaceMetadata) ==
  IF failedToLoadObjs THEN SyncStatusCodeUnknown
  ELSE IF changedManagedNamespaceMetadata THEN SyncStatusCodeOutOfSync
  ELSE IF anyFlip THEN SyncStatusCodeOutOfSync
  ELSE SyncStatusCodeSynced

----------------------------------------------------------------------------
(* The diff cache *)

\* ApplicationStatus.GetRevisions(): the recorded revisions of a
\* multi-source application, else the one recorded revision if there is one
GetRevisions(sync) ==
  IF Len(sync.Revisions) > 0 THEN sync.Revisions
  ELSE IF sync.Revision # "" THEN <<sync.Revision>>
  ELSE <<>>

\* ApplicationSpec.HasMultipleSources()
HasMultipleSources(spec) == Len(spec.Sources) > 0

\* ApplicationSpec.BuildComparedToStatus(sources): v1alpha1.ComparedTo
BuildComparedToStatus(spec, sources) ==
  IF HasMultipleSources(spec)
  THEN [Destination |-> spec.Destination, Source |-> "", Sources |-> sources]
  ELSE [Destination |-> spec.Destination, Source |-> spec.Source, Sources |-> <<>>]

\* specEqualsCompareTo(spec, sources, comparedTo)
specEqualsCompareTo(spec, sources, comparedTo) ==
  comparedTo = BuildComparedToStatus(spec, sources)

\* Faulty variant: the number of render responses is not compared with the
\* number of sources
useDiffCacheIgnoresResponses(noCache, nManifestInfos, sources, refreshRequested, expired, sync, spec, manifestRevisions, serverSideDiff) ==
  IF noCache THEN FALSE
  ELSE IF refreshRequested THEN FALSE
  ELSE IF expired /\ ~serverSideDiff THEN FALSE
  ELSE IF GetRevisions(sync) # manifestRevisions THEN FALSE
  ELSE IF ~specEqualsCompareTo(spec, sources, sync.ComparedTo) THEN FALSE
  ELSE TRUE

\* Faulty variant: an expired status rules the cache out, server-side diff or not
useDiffCacheExpiredNeverCached(noCache, nManifestInfos, sources, refreshRequested, expired, sync, spec, manifestRevisions, serverSideDiff) ==
  IF noCache THEN FALSE
  ELSE IF refreshRequested THEN FALSE
  ELSE IF expired THEN FALSE
  ELSE IF nManifestInfos # Len(sources) THEN FALSE
  ELSE IF GetRevisions(sync) # manifestRevisions THEN FALSE
  ELSE IF ~specEqualsCompareTo(spec, sources, sync.ComparedTo) THEN FALSE
  ELSE TRUE

\* useDiffCache(noCache, manifestInfos, sources, app, manifestRevisions,
\* statusRefreshTimeout, serverSideDiff, log). Of app it reads whether a
\* refresh is requested, whether the status is expired under the timeout,
\* app.Status.Sync and app.Spec; of manifestInfos its length.
useDiffCache(noCache, nManifestInfos, sources, refreshRequested, expired, sync, spec, manifestRevisions, serverSideDiff) ==
  IF noCache THEN FALSE
  ELSE IF refreshRequested THEN FALSE
  ELSE IF expired /\ ~serverSideDiff THEN FALSE
  ELSE IF nManifestInfos # Len(sources) THEN FALSE
  ELSE IF GetRevisions(sync) # manifestRevisions THEN FALSE
  ELSE IF ~specEqualsCompareTo(spec, sources, sync.ComparedTo) THEN FALSE
  ELSE TRUE

----------------------------------------------------------------------------
(* Signature verification *)

\* A key id as written in the project or in a verification payload: the
\* 16-character short form, the 40-character fingerprint that ends in it, or
\* a string that is neither.
KeyString(form, id) == [form |-> form, id |-> id]

\* gpg.KeyID(k): the short key id of a well-formed key id, else ""
KeyID(k) == IF k.form \in {"short", "long"} THEN k.id ELSE ""

VerifyResultGood == "Good"
VerifyResultInvalid == "Invalid"
VerifyResultBad == "Bad"
VerifyResultUnknown == "Unknown"

\* ManifestResponse.VerifyResult is the text git printed: <<>> when empty,
\* else the lines gpg.ParseGitCommitVerification reads the result and the
\* key id from; text it cannot read gives the result Unknown.
NoVerifyResult == <<>>
ParseGitCommitVerification(verifyResult) ==
  IF Len(verifyResult) = 2
  THEN [Result |-> verifyResult[1], KeyID |-> verifyResult[2]]
  ELSE [Result |-> VerifyResultUnknown, KeyID |-> KeyString("invalid", "")]

\* apiclient.ManifestResponse, of which the gate reads two fields
ManifestResponse(revision, verifyResult) ==
  [Revision |-> revision, VerifyResult |-> verifyResult]

\* A comparison-error condition of the gate: the message's fixed text, the
\* revision and the key id it names
SignatureError(msg, revision, keyID) ==
  [Type |-> ApplicationConditionComparisonError, Message |-> msg,
   Revision |-> revision, KeyID |-> keyID]

\* Faulty variant: a trusted key that has no key id matches a signing key
\* that has none
verifyGnuPGSignatureMatchesEmpty(revision, signatureKeys, manifestInfo) ==
  IF manifestInfo.VerifyResult = NoVerifyResult
  THEN <<SignatureError("is not signed, but a signature is required", revision, "")>>
  ELSE LET verifyResult == ParseGitCommitVerification(manifestInfo.VerifyResult) IN
    CASE verifyResult.Result = VerifyResultGood ->
           IF \E i \in 1..Len(signatureKeys) :
                KeyID(signatureKeys[i]) = KeyID(verifyResult.KeyID)
           THEN <<>>
           ELSE <<SignatureError("this key is not allowed in AppProject", "",
                                 verifyResult.KeyID.id)>>
      [] verifyResult.Result = VerifyResultInvalid ->
           <<SignatureError("verification result was invalid", "", verifyResult.KeyID.id)>>
      [] OTHER ->
           <<SignatureError("Could not verify commit signature", revision, "")>>

\* verifyGnuPGSignature(revision, project, manifestInfo): the conditions for
\* one render response; of project it reads Spec.SignatureKeys
verifyGnuPGSignature(revision, signatureKeys, manifestInfo) ==
  IF manifestInfo.VerifyResult = NoVerifyResult
  THEN <<SignatureError("is not signed, but a signature is required", revision, "")>>
  ELSE LET verifyResult == ParseGitCommitVerification(manifestInfo.VerifyResult) IN
    CASE verifyResult.Result = VerifyResultGood ->
           IF \E i \in 1..Len(signatureKeys) :
                /\ KeyID(signatureKeys[i]) = KeyID(verifyResult.KeyID)
                /\ KeyID(signatureKeys[i]) # ""
           THEN <<>>
           ELSE <<SignatureError("this key is not allowed in AppProject", "",
                                 verifyResult.KeyID.id)>>
      [] verifyResult.Result = VerifyResultInvalid ->
           <<SignatureError("verification result was invalid", "", verifyResult.KeyID.id)>>
      [] OTHER ->
           <<SignatureError("Could not verify commit signature", revision, "")>>

\* verifySignature of CompareAppState
verifySignature(signatureKeys, gpgEnabled) == Len(signatureKeys) > 0 /\ gpgEnabled

\* The loop of CompareAppState over manifestInfos, from response i on: the
\* conditions it appends
RECURSIVE signatureConditions(_, _, _, _)
signatureConditions(manifestInfos, signatureKeys, gpgEnabled, i) ==
  IF i > Len(manifestInfos) THEN <<>>
  ELSE (IF /\ gpgEnabled
           /\ verifySignature(signatureKeys, gpgEnabled)
           /\ manifestInfos[i] # Nil
        THEN verifyGnuPGSignature(manifestInfos[i].Revision, signatureKeys, manifestInfos[i])
        ELSE <<>>)
       \o signatureConditions(manifestInfos, signatureKeys, gpgEnabled, i + 1)

----------------------------------------------------------------------------
(* CompareAppState *)

\* appStateManager.repoErrorGracePeriod, in clock ticks
repoErrorGracePeriod == 1

\* A key of repoErrorCache without an entry (Load returns ok = false)
NoEntry == -1

\* The key CompareAppState files an application under in repoErrorCache
repoErrorKey(app) == app.Name

\* Faulty variant: a first failure is not recorded, the pass degrades at once
repoErrorDecisionFirstDegrades(firstSeen, t, noRevisionCache) ==
  IF firstSeen # NoEntry
  THEN IF t - firstSeen <= repoErrorGracePeriod /\ ~noRevisionCache
         THEN "shortCircuit" ELSE "degrade"
  ELSE "degrade"

\* Faulty variant: the grace period ends one tick early (< for <=)
repoErrorDecisionStrictlyWithin(firstSeen, t, noRevisionCache) ==
  IF firstSeen # NoEntry
  THEN IF t - firstSeen < repoErrorGracePeriod /\ ~noRevisionCache
         THEN "shortCircuit" ELSE "degrade"
  ELSE IF ~noRevisionCache THEN "store" ELSE "degrade"

\* Faulty variant: a first failure is recorded whatever noRevisionCache says
repoErrorDecisionIgnoresFlag(firstSeen, t, noRevisionCache) ==
  IF firstSeen # NoEntry
  THEN IF t - firstSeen <= repoErrorGracePeriod /\ ~noRevisionCache
         THEN "shortCircuit" ELSE "degrade"
  ELSE "store"

\* What a pass does after GetRepoObjs failed, given what Load returned:
\* "shortCircuit" returns ErrCompareStateRepo, "store" records the time and
\* returns ErrCompareStateRepo, "degrade" sets failedToLoadObjs and goes on.
repoErrorDecision(firstSeen, t, noRevisionCache) ==
  IF firstSeen # NoEntry
  THEN IF t - firstSeen <= repoErrorGracePeriod /\ ~noRevisionCache
         THEN "shortCircuit" ELSE "degrade"
  ELSE IF ~noRevisionCache THEN "store" ELSE "degrade"

\* What CompareAppState returns: kind "result" (a comparisonResult, nil
\* error), "sentinel" (nil, ErrCompareStateRepo) or "error" (nil and another
\* error). conditions is what the pass hands to app.Status.SetConditions
\* (setConditions: whether it does).
Outcome(kind, sync, health, resources, target, live, conditions, setConditions, failed) ==
  [kind |-> kind, syncStatus |-> sync, healthStatus |-> health,
   resources |-> resources, Target |-> target, Live |-> live,
   conditions |-> conditions, setConditions |-> setConditions,
   failedToLoadObjs |-> failed]

ErrCompareStateRepo == Outcome("sentinel", "", "", <<>>, <<>>, <<>>, {}, FALSE, FALSE)
ErrDestinationCluster == Outcome("error", "", "", <<>>, <<>>, <<>>, {}, FALSE, FALSE)
SettingsUnknownResult ==
  Outcome("result", SyncStatusCodeUnknown, HealthStatusUnknown, <<>>, <<>>, <<>>, {}, FALSE, FALSE)

\* Faulty variant: every live object that names an application in its tracking
\* metadata is reported as shared, this application's own included
isSharedResourceAnyInstance(liveObj, trackingMethod, app) ==
  GetAppName(liveObj, trackingMethod) # NoApp

\* Whether the pass reports liveObj as shared with another application
isSharedResource(liveObj, trackingMethod, app) ==
  LET appInstanceName == GetAppName(liveObj, trackingMethod) IN
  appInstanceName # NoApp /\ appInstanceName # InstanceName(app)

\* Faulty variant: local manifests are parsed and used whether or not
\* signature verification is required
targetPhaseUsesLocal(in, degraded) ==
  IF in.localManifests = "none"
  THEN IF degraded
       THEN [targetObjs |-> <<>>, failed |-> TRUE, manifestInfos |-> <<>>,
             conditions |-> {ComparisonError("Failed to load target state")}]
       ELSE [targetObjs |-> in.rendered, failed |-> FALSE, conditions |-> {},
             manifestInfos |-> in.responses]
  ELSE IF in.localManifests = "bad"
       THEN [targetObjs |-> <<>>, failed |-> TRUE, manifestInfos |-> <<>>,
             conditions |-> {ComparisonError("Failed to load local manifests")}]
  ELSE [targetObjs |-> in.rendered, failed |-> FALSE, conditions |-> {},
        manifestInfos |-> <<>>]

\* The target phase: [targetObjs, manifestInfos, conditions, failed], given
\* whether GetRepoObjs failed past suppression (degraded).
targetPhase(in, degraded) ==
  IF in.localManifests = "none"
  THEN IF degraded
       THEN [targetObjs |-> <<>>, failed |-> TRUE, manifestInfos |-> <<>>,
             conditions |-> {ComparisonError("Failed to load target state")}]
       ELSE [targetObjs |-> in.rendered, failed |-> FALSE, conditions |-> {},
             manifestInfos |-> in.responses]
  ELSE IF in.verifySignature
       THEN [targetObjs |-> <<>>, failed |-> TRUE, manifestInfos |-> <<>>,
             conditions |-> {ComparisonError(
                "Cannot use local manifests when signature verification is required")}]
  ELSE IF in.localManifests = "bad"
       THEN [targetObjs |-> <<>>, failed |-> TRUE, manifestInfos |-> <<>>,
             conditions |-> {ComparisonError("Failed to load local manifests")}]
  ELSE [targetObjs |-> in.rendered, failed |-> FALSE, conditions |-> {},
        manifestInfos |-> <<>>]

\* infoProvider: the cluster cache, or resourceInfoProviderStub when
\* GetClusterCache fails
InfoProvider(in) == IF in.infoErr THEN "stub" ELSE "cache"

\* The pass keeps targetObjs, conditions and failedToLoadObjs from phase to
\* phase; each phase below takes them as the record st and returns them
\* with what it adds.

\* normalizeClusterScopeTracking and its condition
normalizePhase(app, in, tp) ==
  LET failing == IF in.setAppInstanceErr
                 THEN {tp.targetObjs[i].name : i \in 1..Len(tp.targetObjs)}
                 ELSE {}
      norm == normalizeClusterScopeTracking(tp.targetObjs, InfoProvider(in), InstanceName(app),
                                            in.trackingMethod, failing)
  IN [targetObjs |-> norm.objs,
      failedToLoadObjs |-> tp.failed,
      conditions |->
        tp.conditions
        \cup (IF norm.err
              THEN {ComparisonError("Failed to normalize cluster-scoped resource tracking")}
              ELSE {})]

\* The loop over the deduplicated targets: resFilter.IsExcludedResource
\* removes the excluded kinds, isManagedNamespace sets targetNsExists
excludePhase(in, st, dedup) ==
  [targetObjs |-> SelectSeq(dedup.objs, LAMBDA o : o.kind \notin in.excluded),
   targetNsExists |->
     \E i \in 1..Len(dedup.objs) : isManagedNamespace(dedup.objs[i], in.managedNamespaceMetadata),
   failedToLoadObjs |-> st.failedToLoadObjs,
   conditions |->
     st.conditions
     \cup dedup.conditions
     \cup {Condition(ApplicationConditionExcludedResourceWarning,
                     "is excluded in the settings",
                     GetResourceKey(dedup.objs[i]), 0, NoApp) :
             i \in {j \in 1..Len(dedup.objs) : dedup.objs[j].kind \in in.excluded}}]

\* DeduplicateTargetObjects and the loop after it
dedupPhase(in, st) ==
  excludePhase(in, st,
    DeduplicateTargetObjects(DestinationNamespace, st.targetObjs, InfoProvider(in), in.mapOrder))

\* GetManagedLiveObjs, listed in the order the map's iteration takes, and
\* the filter of the live objects the project does not permit
livePhase(in, st) ==
  LET loadedLive == IF in.liveErr THEN <<>>
                    ELSE IF in.mapOrder = "rev" THEN Reverse(in.liveObjs) ELSE in.liveObjs
      perm(l) == IsLiveResourcePermitted(in.blacklist, l, in.permErr)
  IN [targetObjs |-> st.targetObjs,
      targetNsExists |-> st.targetNsExists,
      liveObjs |-> SelectSeq(loadedLive, LAMBDA l : perm(l).permitted \/ perm(l).err),
      failedToLoadObjs |->
        \/ st.failedToLoadObjs
        \/ in.liveErr
        \/ \E i \in 1..Len(loadedLive) : perm(loadedLive[i]).err,
      conditions |->
        st.conditions
        \cup (IF in.liveErr THEN {ComparisonError("Failed to load live state")} ELSE {})
        \cup {Condition(ApplicationConditionComparisonError,
                        "Failed to check if live resource is permitted in project",
                        GetResourceKey(loadedLive[i]), 0, NoApp) :
                i \in {j \in 1..Len(loadedLive) : perm(loadedLive[j]).err}}]

\* Faulty variant: the namespace is synthesized for a live managed namespace
\* whether or not it is a target already
sharedPhaseAlwaysSynthesizes(app, in, st) ==
  LET liveIdx == 1..Len(st.liveObjs)
      synthesize(l) == isManagedNamespace(l, in.managedNamespaceMetadata)
      added == SelectSeq(st.liveObjs, LAMBDA l : synthesize(l) /\ ~in.syncNamespaceErr)
      syncNamespaceFailed == \E i \in liveIdx : synthesize(st.liveObjs[i]) /\ in.syncNamespaceErr
  IN [targetObjs |-> st.targetObjs \o [i \in 1..Len(added) |-> managedNs(added[i])],
      liveObjs |-> st.liveObjs,
      failedToLoadObjs |-> st.failedToLoadObjs \/ syncNamespaceFailed,
      conditions |->
        st.conditions
        \cup {Condition(ApplicationConditionSharedResourceWarning,
                        "is part of applications",
                        GetResourceKey(st.liveObjs[i]), 0,
                        GetAppName(st.liveObjs[i], in.trackingMethod)) :
                i \in {j \in liveIdx : isSharedResource(st.liveObjs[j], in.trackingMethod, app)}}
        \cup (IF syncNamespaceFailed THEN {ComparisonError("syncNamespace")} ELSE {})]

\* The loop over the live objects: the shared-resource warnings and the
\* namespace synthesized for a live managed namespace that is no target
sharedPhase(app, in, st) ==
  LET liveIdx == 1..Len(st.liveObjs)
      synthesize(l) == isManagedNamespace(l, in.managedNamespaceMetadata) /\ ~st.targetNsExists
      added == SelectSeq(st.liveObjs, LAMBDA l : synthesize(l) /\ ~in.syncNamespaceErr)
      syncNamespaceFailed == \E i \in liveIdx : synthesize(st.liveObjs[i]) /\ in.syncNamespaceErr
  IN [targetObjs |-> st.targetObjs \o [i \in 1..Len(added) |-> managedNs(added[i])],
      liveObjs |-> st.liveObjs,
      failedToLoadObjs |-> st.failedToLoadObjs \/ syncNamespaceFailed,
      conditions |->
        st.conditions
        \cup {Condition(ApplicationConditionSharedResourceWarning,
                        "is part of applications",
                        GetResourceKey(st.liveObjs[i]), 0,
                        GetAppName(st.liveObjs[i], in.trackingMethod)) :
                i \in {j \in liveIdx : isSharedResource(st.liveObjs[j], in.trackingMethod, app)}}
        \cup (IF syncNamespaceFailed THEN {ComparisonError("syncNamespace")} ELSE {})]

\* sync.Reconcile, the diff configuration and argodiff.StateDiffs
reconcilePhase(in, st) ==
  [reconciliation |->
     Reconcile(st.targetObjs, st.liveObjs, DestinationNamespace, InfoProvider(in)),
   failedToLoadObjs |-> st.failedToLoadObjs \/ in.diffErr,
   conditions |->
     st.conditions
     \cup (IF in.gvkParserErr
           THEN {Condition(ApplicationConditionUnknownError, "getGVKParser", NoKey, 0, NoApp)}
           ELSE {})
     \cup (IF in.diffErr
           THEN {ComparisonError("Failed to compare desired state to live state")}
           ELSE {})]

\* Faulty variant: the last pair of the loop decides the aggregate
classifyPhaseLastPairDecides(app, in, st) ==
  LET n == Len(st.reconciliation.Target)
      T(i) == st.reconciliation.Target[i]
      L(i) == st.reconciliation.Live[i]
      O(i) == IF L(i) = Nil THEN T(i) ELSE L(i)
  IN Outcome("result",
       aggregateSyncCode(
         n > 0 /\ pairFlips(T(n), L(n), GetName(app), in.trackingMethod,
                             in.managedNamespaceMetadata, in.modified, in.diffErr),
         st.failedToLoadObjs, in.changedManagedNamespaceMetadata),
       in.healthStatus,
       [i \in 1..n |->
          resState(T(i), L(i), GetName(app), in.trackingMethod, in.managedNamespaceMetadata,
                   in.modified, in.diffErr, in.blacklist, in.infoErr, st.failedToLoadObjs)],
       st.reconciliation.Target, st.reconciliation.Live,
       st.conditions
       \cup {Condition(ApplicationConditionInvalidSpecError, "Namespace is missing",
                       GetResourceKey(O(i)), 0, NoApp) :
               i \in {j \in 1..n : /\ O(j) # Nil
                                    /\ liveStateIsNamespaced(O(j).kind, in.infoErr)
                                    /\ O(j).namespace = ""}}
       \cup (IF in.healthErr THEN {ComparisonError("error setting app health")} ELSE {}),
       TRUE, st.failedToLoadObjs)

\* The classification loop, the aggregate, setApplicationHealth and the result
classifyPhase(app, in, st) ==
  LET n == Len(st.reconciliation.Target)
      T(i) == st.reconciliation.Target[i]
      L(i) == st.reconciliation.Live[i]
      O(i) == IF L(i) = Nil THEN T(i) ELSE L(i)
  IN Outcome("result",
       aggregateSyncCode(
         \E i \in 1..n : pairFlips(T(i), L(i), GetName(app), in.trackingMethod,
                                   in.managedNamespaceMetadata, in.modified, in.diffErr),
         st.failedToLoadObjs, in.changedManagedNamespaceMetadata),
       in.healthStatus,
       [i \in 1..n |->
          resState(T(i), L(i), GetName(app), in.trackingMethod, in.managedNamespaceMetadata,
                   in.modified, in.diffErr, in.blacklist, in.infoErr, st.failedToLoadObjs)],
       st.reconciliation.Target, st.reconciliation.Live,
       st.conditions
       \cup {Condition(ApplicationConditionInvalidSpecError, "Namespace is missing",
                       GetResourceKey(O(i)), 0, NoApp) :
               i \in {j \in 1..n : /\ O(j) # Nil
                                    /\ liveStateIsNamespaced(O(j).kind, in.infoErr)
                                    /\ O(j).namespace = ""}}
       \cup (IF in.healthErr THEN {ComparisonError("error setting app health")} ELSE {}),
       TRUE, st.failedToLoadObjs)

\* manifestRevisions: the revision of each render response
manifestRevisionsOf(manifestInfos) ==
  [i \in 1..Len(manifestInfos) |-> manifestInfos[i].Revision]

\* syncStatus.Revision and syncStatus.Revisions of the result: the revisions
\* the pass was given, replaced by the resolved ones
syncRevisions(revisions, hasMultipleSources, manifestRevisions) ==
  IF hasMultipleSources
  THEN [Revision |-> "", Revisions |-> manifestRevisions]
  ELSE [Revision |-> IF Len(manifestRevisions) > 0 THEN manifestRevisions[1]
                     ELSE IF Len(revisions) > 0 THEN revisions[1]
                     ELSE "",
        Revisions |-> <<>>]

\* Faulty variant: pairs that are hooks get no entry in the list of managed
\* resources
managedResourcesSkipHooks(resources, target, live) ==
  LET kept == SelectSeq([i \in 1..Len(resources) |-> i], LAMBDA i : ~resources[i].Hook)
  IN [n \in 1..Len(kept) |->
        [Group |-> resources[kept[n]].Group, Kind |-> resources[kept[n]].Kind,
         Namespace |-> resources[kept[n]].Namespace, Name |-> resources[kept[n]].Name,
         Hook |-> resources[kept[n]].Hook, Live |-> live[kept[n]],
         Target |-> target[kept[n]]]]

\* managedResources: entry i is filled from resState of pair i and the pair
\* itself, and is left at its zero value when both are nil
managedResources(resources, target, live) ==
  [i \in 1..Len(target) |->
     IF target[i] = Nil /\ live[i] = Nil
     THEN [Group |-> "", Kind |-> "", Namespace |-> "", Name |-> <<>>, Hook |-> FALSE,
           Live |-> Nil, Target |-> Nil]
     ELSE [Group |-> resources[i].Group, Kind |-> resources[i].Kind,
           Namespace |-> resources[i].Namespace, Name |-> resources[i].Name,
           Hook |-> resources[i].Hook, Live |-> live[i], Target |-> target[i]]]

\* Faulty variant: a signature that is not accepted leaves the sync status
\* of the result Unknown
resultPhaseGateDegrades(in, manifestInfos, out) ==
  LET failed == signatureConditions(manifestInfos, in.signatureKeys, in.gpgEnabled, 1) # <<>>
  IN
  [kind |-> out.kind,
   syncStatus |-> IF failed THEN SyncStatusCodeUnknown ELSE out.syncStatus,
   healthStatus |-> out.healthStatus,
   resources |-> out.resources, Target |-> out.Target, Live |-> out.Live,
   conditions |->
     out.conditions
     \cup {signatureConditions(manifestInfos, in.signatureKeys, in.gpgEnabled, 1)[i] :
             i \in 1..Len(signatureConditions(manifestInfos, in.signatureKeys,
                                              in.gpgEnabled, 1))},
   setConditions |-> out.setConditions, failedToLoadObjs |-> out.failedToLoadObjs,
   managedResources |-> managedResources(out.resources, out.Target, out.Live),
   revisions |-> syncRevisions(in.revisions, in.hasMultipleSources,
                               manifestRevisionsOf(manifestInfos)),
   useDiffCache |->
     useDiffCache(in.noCache, Len(manifestInfos), in.sources, in.refreshRequested,
                  in.expired, in.sync, in.spec, manifestRevisionsOf(manifestInfos),
                  in.serverSideDiff)]

\* What the pass adds to the result of the classification (out): whether the
\* diff was configured with the cache, the resolved revisions, the list of
\* managed resources and the conditions of the signature gate
resultPhase(in, manifestInfos, out) ==
  [kind |-> out.kind, syncStatus |-> out.syncStatus, healthStatus |-> out.healthStatus,
   resources |-> out.resources, Target |-> out.Target, Live |-> out.Live,
   conditions |->
     out.conditions
     \cup {signatureConditions(manifestInfos, in.signatureKeys, in.gpgEnabled, 1)[i] :
             i \in 1..Len(signatureConditions(manifestInfos, in.signatureKeys,
                                              in.gpgEnabled, 1))},
   setConditions |-> out.setConditions, failedToLoadObjs |-> out.failedToLoadObjs,
   managedResources |-> managedResources(out.resources, out.Target, out.Live),
   revisions |-> syncRevisions(in.revisions, in.hasMultipleSources,
                               manifestRevisionsOf(manifestInfos)),
   useDiffCache |->
     useDiffCache(in.noCache, Len(manifestInfos), in.sources, in.refreshRequested,
                  in.expired, in.sync, in.spec, manifestRevisionsOf(manifestInfos),
                  in.serverSideDiff)]

\* The pass from the normalisation of the targets to the result.
compareFrom(app, in, tp) ==
  resultPhase(in, tp.manifestInfos,
    classifyPhase(app, in,
      reconcilePhase(in,
        sharedPhase(app, in,
          livePhase(in,
            dedupPhase(in,
              normalizePhase(app, in, tp)))))))

\* Faulty variant: a failure to resolve the destination cluster does not end the pass
compareEarlySettingsOnly(in) ==
  IF in.settingsErr THEN SettingsUnknownResult ELSE Nil

\* CompareAppState up to the call of GetRepoObjs: the outcome when the pass
\* returns before it, Nil when it goes on.
compareEarly(in) ==
  IF in.settingsErr THEN SettingsUnknownResult
  ELSE IF in.destErr THEN ErrDestinationCluster
  ELSE Nil

\* Faulty variant: a successful GetRepoObjs leaves the entry in repoErrorCache
CompareAppStateKeepsEntry(app, in, cache, t) ==
  LET k == repoErrorKey(app) IN
  IF compareEarly(in) # Nil THEN [out |-> compareEarly(in), cache |-> cache]
  ELSE IF in.localManifests # "none" \/ ~in.repoErr
    THEN [out |-> compareFrom(app, in, targetPhase(in, FALSE)), cache |-> cache]
  ELSE LET decision == repoErrorDecision(cache[k], t, in.noRevisionCache) IN
    CASE decision = "shortCircuit" -> [out |-> ErrCompareStateRepo, cache |-> cache]
      [] decision = "store" -> [out |-> ErrCompareStateRepo, cache |-> [cache EXCEPT ![k] = t]]
      [] OTHER -> [out |-> compareFrom(app, in, targetPhase(in, TRUE)), cache |-> cache]

\* CompareAppState(app, project, revisions, sources, noCache, noRevisionCache,
\* localManifests, hasMultipleSources) at time t with repoErrorCache = cache:
\* [out, cache], the outcome and repoErrorCache after the pass.
CompareAppState(app, in, cache, t) ==
  LET k == repoErrorKey(app) IN
  IF compareEarly(in) # Nil THEN [out |-> compareEarly(in), cache |-> cache]
  ELSE IF in.localManifests # "none"
    THEN [out |-> compareFrom(app, in, targetPhase(in, FALSE)), cache |-> cache]
  ELSE IF ~in.repoErr
    THEN [out |-> compareFrom(app, in, targetPhase(in, FALSE)),
          cache |-> [cache EXCEPT ![k] = NoEntry]]
  ELSE LET decision == repoErrorDecision(cache[k], t, in.noRevisionCache) IN
    CASE decision = "shortCircuit" -> [out |-> ErrCompareStateRepo, cache |-> cache]
      [] decision = "store" -> [out |-> ErrCompareStateRepo, cache |-> [cache EXCEPT ![k] = t]]
      [] OTHER -> [out |-> compareFrom(app, in, targetPhase(in, TRUE)), cache |-> cache]

----------------------------------------------------------------------------
(* Bounds and the inputs drawn within them *)

MaxTime == 3      \* the clock runs from 0 to MaxTime
MaxFaults == 1    \* failures of collaborators injected into one pass
MaxTargets == 1   \* rendered manifests of one pass
MaxLive == 2      \* live objects the cluster cache returns for one pass
MaxObjs == 3      \* objects in the list passed to a function called on its own
MaxSources == 2   \* sources of an application

\* Applications: two that share a name in different namespaces, one other.
App(ns, n) == [Namespace |-> ns, Name |-> n]
Apps == {App("argocd", "a"), App("team", "a"), App("argocd", "b")}
AppNames == {a.Name : a \in Apps}
TheApp == App("argocd", "a")
OtherInstance == InstanceName(App("argocd", "b"))

\* The inputs of a pass: the collaborators that fail (faults), the flag
\* noRevisionCache, how the target phase goes (mode), the application's and
\* the project's policy (pol), what is rendered and what is live (scene) and
\* the names of the objects whose live state differs from the target (d).
Input(faults, nrc, mode, pol, scene, d, x) ==
  [settingsErr |-> "settingsErr" \in faults, destErr |-> "destErr" \in faults,
   localManifests |-> mode.localManifests,
   verifySignature |-> verifySignature(x.signatureKeys, x.gpgEnabled),
   signatureKeys |-> x.signatureKeys, gpgEnabled |-> x.gpgEnabled,
   responses |-> x.responses, sources |-> x.sources, revisions |-> x.revisions,
   hasMultipleSources |-> HasMultipleSources(x.spec), spec |-> x.spec, sync |-> x.sync,
   noCache |-> x.noCache, refreshRequested |-> x.refreshRequested,
   expired |-> x.expired, serverSideDiff |-> x.serverSideDiff,
   repoErr |-> mode.repoErr, noRevisionCache |-> nrc,
   infoErr |-> "infoErr" \in faults, setAppInstanceErr |-> "setAppInstanceErr" \in faults,
   liveErr |-> "liveErr" \in faults, permErr |-> "permErr" \in faults,
   syncNamespaceErr |-> "syncNamespaceErr" \in faults,
   gvkParserErr |-> "gvkParserErr" \in faults, diffErr |-> "diffErr" \in faults,
   healthErr |-> "healthErr" \in faults, healthStatus |-> "Healthy",
   trackingMethod |-> pol.trackingMethod,
   managedNamespaceMetadata |-> pol.managedNamespaceMetadata,
   changedManagedNamespaceMetadata |-> pol.changedManagedNamespaceMetadata,
   blacklist |-> pol.blacklist, excluded |-> {},
   rendered |-> scene.rendered, liveObjs |-> scene.liveObjs,
   modified |-> d, mapOrder |-> x.mapOrder]

\* The rest of a pass's inputs: the project's signature keys and whether GPG
\* is enabled, the sources, the revisions given, the render responses of a
\* successful GetRepoObjs, what useDiffCache reads, and the iteration order
\* of the maps
Extras(signatureKeys, gpgEnabled, sources, spec, sync, responses, cache, mapOrder) ==
  [signatureKeys |-> signatureKeys, gpgEnabled |-> gpgEnabled, sources |-> sources,
   revisions |-> [i \in 1..Len(sources) |-> "t1"], spec |-> spec, sync |-> sync,
   responses |-> responses, noCache |-> cache.noCache,
   refreshRequested |-> cache.refreshRequested, expired |-> cache.expired,
   serverSideDiff |-> cache.serverSideDiff, mapOrder |-> mapOrder]

\* One source, rendered at revision r1 without a verification payload, by
\* an application whose last comparison was of the same source at r1.
\* SyncedAt: app.Status.Sync after a comparison of sources that resolved
\* revisions.
OneSourceSpec == [Destination |-> "d", Source |-> "s", Sources |-> <<>>]
SyncedAt(spec, sources, revisions) ==
  [Revision |-> IF HasMultipleSources(spec) \/ revisions = <<>> THEN "" ELSE revisions[1],
   Revisions |-> IF HasMultipleSources(spec) THEN revisions ELSE <<>>,
   ComparedTo |-> BuildComparedToStatus(spec, sources)]
CacheFriendly ==
  [noCache |-> FALSE, refreshRequested |-> FALSE, expired |-> FALSE, serverSideDiff |-> FALSE]
PlainExtras(mode) ==
  Extras(IF mode.verifySignature THEN <<KeyString("short", "K1")>> ELSE <<>>, TRUE,
         <<"s">>, OneSourceSpec, SyncedAt(OneSourceSpec, <<"s">>, <<"r1">>),
         <<ManifestResponse("r1", NoVerifyResult)>>, CacheFriendly, "fwd")

Policy(tm, managed, changed, blacklist) ==
  [trackingMethod |-> tm, managedNamespaceMetadata |-> managed,
   changedManagedNamespaceMetadata |-> changed, blacklist |-> blacklist]

\* How the target phase goes: GetRepoObjs succeeds or fails, or local
\* manifests are given that parse ("ok"), do not ("bad"), or meet required
\* signature verification.
TargetModes ==
  {[localManifests |-> "none", verifySignature |-> FALSE, repoErr |-> FALSE],
   [localManifests |-> "none", verifySignature |-> FALSE, repoErr |-> TRUE],
   [localManifests |-> "ok", verifySignature |-> FALSE, repoErr |-> FALSE],
   [localManifests |-> "bad", verifySignature |-> FALSE, repoErr |-> FALSE],
   [localManifests |-> "ok", verifySignature |-> TRUE, repoErr |-> FALSE]}

UpTo(S, n) == {F \in SUBSET S : Cardinality(F) <= n}

\* Sequences over S of length at most n
RECURSIVE SeqsUpTo(_, _)
SeqsUpTo(S, n) ==
  IF n = 0 THEN {<<>>}
  ELSE LET shorter == SeqsUpTo(S, n - 1)
       IN  shorter \cup {Append(s, x) : s \in {q \in shorter : Len(q) = n - 1}, x \in S}

X == <<"x">>
Y == <<"y">>
AllNames == {X, Y, DestinationNamespaceName}

\* The tracking annotation the repo server writes for instance val
Tracked(val, g, k, ns, n) ==
  AppInstanceValue(val, g, k, IF ns = "" THEN DestinationNamespace ELSE ns, n)

\* Rendered manifests of application instance val
TargetPool(val) ==
  {Obj("apps", "Deployment", "", X, "plain", FALSE,
       Tracked(val, "apps", "Deployment", "", X), val),
   Obj("apps", "Deployment", DestinationNamespace, X, "skip", FALSE,
       Tracked(val, "apps", "Deployment", DestinationNamespace, X), val),
   Obj("apps", "Deployment", DestinationNamespace, Y, "plain", FALSE,
       Tracked(val, "apps", "Deployment", DestinationNamespace, Y), val),
   Obj("", NamespaceKind, DestinationNamespace, DestinationNamespaceName, "plain", FALSE,
       Tracked(val, "", NamespaceKind, DestinationNamespace, DestinationNamespaceName), val)}

\* Live objects of the destination cluster: tracked by instance val or by
\* another instance, with the tracking id of the object itself or one copied
\* from another object.
LiveX(val) ==
  {Obj("apps", "Deployment", DestinationNamespace, X, "plain", FALSE,
       Tracked(val, "apps", "Deployment", DestinationNamespace, X), val),
   Obj("apps", "Deployment", DestinationNamespace, X, "plain", FALSE,
       Tracked(OtherInstance, "apps", "Deployment", DestinationNamespace, X), OtherInstance),
   Obj("apps", "Deployment", DestinationNamespace, X, "plain", FALSE,
       Tracked(val, "apps", "Deployment", DestinationNamespace, Y), val)}
LiveY(val) ==
  {Obj("apps", "Deployment", DestinationNamespace, Y, "plain", FALSE,
       Tracked(val, "apps", "Deployment", DestinationNamespace, X), val),
   Obj("apps", "Deployment", DestinationNamespace, Y, "plain", FALSE,
       Tracked(OtherInstance, "apps", "Deployment", DestinationNamespace, X), OtherInstance),
   Obj("apps", "Deployment", DestinationNamespace, Y, "plain", TRUE,
       Tracked(val, "apps", "Deployment", DestinationNamespace, Y), val),
   Obj("apps", "Deployment", DestinationNamespace, Y, "hook", FALSE,
       Tracked(val, "apps", "Deployment", DestinationNamespace, Y), val)}
LiveN(val) ==
  {Obj("", NamespaceKind, "", DestinationNamespaceName, "plain", FALSE,
       Tracked(val, "", NamespaceKind, "", DestinationNamespaceName), val)}

\* The cluster cache's answer: at most one object per key, listed X, Y, Namespace
LiveLists(val) ==
  {s \in {x \o y \o n : x \in {<<>>} \cup {<<l>> : l \in LiveX(val)},
                       y \in {<<>>} \cup {<<l>> : l \in LiveY(val)},
                       n \in {<<>>} \cup {<<l>> : l \in LiveN(val)}} :
     Len(s) <= MaxLive}

\* Failures of the collaborators of a pass other than GetRepoObjs
FaultFields ==
  {"settingsErr", "destErr", "infoErr", "setAppInstanceErr", "liveErr", "permErr",
   "syncNamespaceErr", "gvkParserErr", "diffErr", "healthErr"}

\* Failures that bear on the classification of resources
SyncFaultFields == {"infoErr", "liveErr", "permErr", "syncNamespaceErr", "diffErr"}

\* Passes of the orchestrator specification: every way the target phase can
\* go, with at most MaxFaults other failures, over two scenes of the cluster.
GraceScenes(val) ==
  {[rendered |-> <<>>, liveObjs |-> <<>>],
   [rendered |-> <<Obj("", NamespaceKind, DestinationNamespace, DestinationNamespaceName,
                       "plain", FALSE,
                       Tracked(val, "", NamespaceKind, DestinationNamespace,
                               DestinationNamespaceName), val)>>,
    liveObjs |-> <<Obj("apps", "Deployment", DestinationNamespace, X, "plain", FALSE,
                       Tracked(val, "apps", "Deployment", DestinationNamespace, X), val)>>]}

GraceInput(F, nrc, mode, scene) ==
  Input(F, nrc, mode, Policy(TrackingMethodAnnotation, FALSE, FALSE, {}), scene, {},
        PlainExtras(mode))

\* The failures of the target phase in a pass of mode (0 or 1)
TargetFaults(mode) ==
  IF mode.repoErr \/ mode.verifySignature \/ mode.localManifests = "bad" THEN 1 ELSE 0

\* Passes of the classification specification: one application, forced deep
\* comparison, every scene of the cluster within the bounds, with at most
\* MaxFaults failures, the target phase's included.
SyncPolicies ==
  {Policy(TrackingMethodAnnotation, pol[1], pol[2], pol[3]) :
     pol \in {<<FALSE, FALSE, {}>>, <<FALSE, FALSE, {"Deployment"}>>,
              <<TRUE, FALSE, {}>>, <<TRUE, TRUE, {}>>}}
  \cup {Policy(TrackingMethodLabel, FALSE, FALSE, {})}

SyncInput(F, mode, pol, r, l, d) ==
  Input(F, TRUE, mode, pol, [rendered |-> r, liveObjs |-> l], d, PlainExtras(mode))

----------------------------------------------------------------------------
(* The specifications *)

\* A worker between passes
Idle == [at |-> "idle", noRevisionCache |-> FALSE]

NoOutcome == Outcome("none", "", "", <<>>, <<>>, <<>>, {}, FALSE, FALSE)
NoCall == [app |-> Nil, in |-> Nil, cacheBefore |-> <<>>, t |-> 0, out |-> NoOutcome]
\* No function call under study
NoFnCall == [op |-> "none"]

NoOwnCall ==
  [live |-> Nil, config |-> Nil, appName |-> NoApp, trackingMethod |-> "",
   called |-> FALSE, result |-> FALSE]

Init ==
  /\ repoErrorCache = [n \in AppNames |-> NoEntry]
  /\ now = 0
  /\ last = NoCall
  /\ own = NoOwnCall
  /\ fn = NoFnCall
  /\ pc = [a \in Apps |-> Idle]
  /\ loaded = [a \in Apps |-> NoEntry]
  /\ actor = Nil

\* The orchestrator calls CompareAppState for app with inputs in
Call(app, in) ==
  /\ last' = [app |-> app, in |-> in, cacheBefore |-> repoErrorCache, t |-> now,
              out |-> NoOutcome]
  /\ UNCHANGED <<repoErrorCache, now, own, fn, pc, loaded, actor>>

Compare ==
  /\ last = NoCall
  /\ \E app \in Apps, F \in UpTo(FaultFields, MaxFaults), nrc \in BOOLEAN,
        mode \in TargetModes :
       \E scene \in GraceScenes(InstanceName(app)) :
         Call(app, GraceInput(F, nrc, mode, scene))

\* A target phase that fails delivers no manifests, so nothing is rendered then.
CompareSync ==
  /\ last = NoCall
  /\ \E mode \in TargetModes, pol \in SyncPolicies, d \in {{}, AllNames},
        l \in LiveLists(InstanceName(TheApp)) :
       \E F \in UpTo(SyncFaultFields, MaxFaults - TargetFaults(mode)),
          r \in IF TargetFaults(mode) = 1 THEN {<<>>}
                ELSE SeqsUpTo(TargetPool(InstanceName(TheApp)), MaxTargets) :
         Call(TheApp, SyncInput(F, mode, pol, r, l, d))

\* The pass of CompareAppState called, from start to return
DoCompare ==
  /\ last # NoCall
  /\ last.out = NoOutcome
  /\ LET r == CompareAppState(last.app, last.in, repoErrorCache, now)
     IN  /\ repoErrorCache' = r.cache
         /\ last' = [last EXCEPT !.out = r.out]
  /\ UNCHANGED <<now, own, fn, pc, loaded, actor>>

\* The caller takes what the pass returned; the result is not kept.
Return ==
  /\ last # NoCall
  /\ last.out # NoOutcome
  /\ last' = NoCall
  /\ UNCHANGED <<repoErrorCache, now, own, fn, pc, loaded, actor>>

\* Time passes between passes.
Tick ==
  /\ last = NoCall
  /\ now < MaxTime
  /\ now' = now + 1
  /\ UNCHANGED <<repoErrorCache, last, own, fn, pc, loaded, actor>>

Next == Compare \/ DoCompare \/ Return \/ Tick

\* The orchestrator: passes of every application, one at a time, over time
Spec == Init /\ [][Next]_vars

NextSync == CompareSync \/ DoCompare \/ Return

\* The classification: passes of one application over every scene
SpecSync == Init /\ [][NextSync]_vars

----------------------------------------------------------------------------
(* The ownership check on its own *)

\* Live objects of one group, kind and name (the tuple they are compared
\* with varies), in any namespace or none, with any tracking annotation or
\* none; desired objects of any identity.
OwnGroups == {"apps", "extensions"}
OwnKinds == {"Deployment", "Ingress"}
OwnNamespaces == {"", DestinationNamespace, "other"}
OwnNames == {X, Y}
OwnApps == {InstanceName(TheApp), OtherInstance}
OwnTrackings ==
  {Nil} \cup {AppInstanceValue(a, g, k, ns, n) :
                a \in OwnApps, g \in OwnGroups, k \in OwnKinds, ns \in OwnNamespaces,
                n \in OwnNames}
OwnLive ==
  {Nil} \cup {Obj("apps", "Deployment", ns, X, "plain", FALSE, tr, NoApp) :
                ns \in OwnNamespaces, tr \in OwnTrackings}
OwnConfig ==
  {Nil} \cup {Obj(g, k, ns, n, "plain", FALSE, Nil, NoApp) :
                g \in OwnGroups, k \in OwnKinds, ns \in OwnNamespaces, n \in OwnNames}

InitOwn ==
  /\ repoErrorCache = [n \in AppNames |-> NoEntry]
  /\ now = 0
  /\ last = NoCall
  /\ own \in [live : OwnLive, config : OwnConfig, appName : {GetName(a) : a \in Apps},
              trackingMethod : TrackingMethods, called : {FALSE}, result : {FALSE}]
  /\ fn = NoFnCall
  /\ pc = [a \in Apps |-> Idle]
  /\ loaded = [a \in Apps |-> NoEntry]
  /\ actor = Nil

\* m.isSelfReferencedObj(live, config, appName, trackingMethod, installationID)
CallIsSelfReferencedObj ==
  /\ ~own.called
  /\ own' = [own EXCEPT
               !.called = TRUE,
               !.result = isSelfReferencedObj(own.live, own.config, own.appName,
                                              own.trackingMethod)]
  /\ UNCHANGED <<repoErrorCache, now, last, fn, pc, loaded, actor>>

NextOwn == CallIsSelfReferencedObj

SpecOwn == InitOwn /\ [][NextOwn]_vars

\* The identity tuple of C8: taken from the desired object when there is
\* one, otherwise from the live object's tracking annotation.
OwnTuple ==
  IF own.config # Nil
  THEN [Namespace |-> own.config.namespace, Name |-> own.config.name,
        Group |-> own.config.group, Kind |-> own.config.kind]
  ELSE [Namespace |-> own.live.tracking.Namespace, Name |-> own.live.tracking.Name,
        Group |-> own.live.tracking.Group, Kind |-> own.live.tracking.Kind]

----------------------------------------------------------------------------
(* Properties of CompareAppState *)

\* A pass has returned and its caller has not yet taken the outcome
Returned == last # NoCall /\ last.out # NoOutcome

\* The pass that returned last got as far as the target phase
Reached == Returned /\ ~last.in.settingsErr /\ ~last.in.destErr

\* ... and called GetRepoObjs, which failed
AcquisitionFailed == Reached /\ last.in.localManifests = "none" /\ last.in.repoErr

\* ... or succeeded
AcquisitionSucceeded == Reached /\ last.in.localManifests = "none" /\ ~last.in.repoErr

\* The entry of the application of the last pass, before and after it
EntryBefore == last.cacheBefore[repoErrorKey(last.app)]
EntryAfter == repoErrorCache[repoErrorKey(last.app)]

\* The last pass returned a result with aggregate Unknown and the
\* comparison-error condition of a failed target acquisition
DegradedResult ==
  /\ last.out.kind = "result"
  /\ last.out.syncStatus = SyncStatusCodeUnknown
  /\ ComparisonError("Failed to load target state") \in last.out.conditions

\* C1: in every result of a pass in which failedToLoadObjs was set, the
\* aggregate sync status is Unknown and so is the sync status of every
\* reported resource.
C1_FailedToLoadForcesUnknown ==
  (last.out.kind = "result" /\ last.out.failedToLoadObjs) =>
    /\ last.out.syncStatus = SyncStatusCodeUnknown
    /\ \A i \in 1..Len(last.out.resources) :
         last.out.resources[i].Status = SyncStatusCodeUnknown

\* C1 witness: the diff failed in a pass whose target has no live object
\* (OutOfSync otherwise); the resource is reported Unknown.
C1_Witness ==
  /\ last.out.kind = "result"
  /\ last.out.failedToLoadObjs
  /\ last.in.diffErr
  /\ \E i \in 1..Len(last.out.resources) :
       /\ last.out.Target[i] # Nil
       /\ last.out.Live[i] = Nil
       /\ last.out.Target[i].cls = "plain"
       /\ last.out.resources[i].Status = SyncStatusCodeUnknown


\* The conditions the failures of the last pass leave, for the phases that
\* record one and go on. Normalisation fails when SetAppInstance does, on a
\* target of a cluster-scoped kind that carries a namespace.
TargetsDelivered ==
  \/ last.in.localManifests = "none" /\ ~last.in.repoErr
  \/ last.in.localManifests = "ok" /\ ~last.in.verifySignature

NormalisationFailed ==
  /\ last.in.setAppInstanceErr
  /\ TargetsDelivered
  /\ \E i \in 1..Len(last.in.rendered) :
       /\ last.in.rendered[i].namespace # ""
       /\ ~IsNamespacedOrUnknown(IF last.in.infoErr THEN "stub" ELSE "cache",
                                 last.in.rendered[i].kind)

FailuresRecorded ==
  /\ (last.in.localManifests = "none" /\ last.in.repoErr) =>
       ComparisonError("Failed to load target state") \in last.out.conditions
  /\ NormalisationFailed =>
       ComparisonError("Failed to normalize cluster-scoped resource tracking")
         \in last.out.conditions
  /\ last.in.liveErr => ComparisonError("Failed to load live state") \in last.out.conditions
  /\ last.in.diffErr =>
       ComparisonError("Failed to compare desired state to live state")
         \in last.out.conditions
  /\ last.in.healthErr => ComparisonError("error setting app health") \in last.out.conditions

SyncVerdicts == {SyncStatusCodeSynced, SyncStatusCodeOutOfSync, SyncStatusCodeUnknown}

C3_FirstFailureStoresAndSuppresses ==
  (AcquisitionFailed /\ ~last.in.noRevisionCache /\ EntryBefore = NoEntry) =>
    /\ last.out = ErrCompareStateRepo
    /\ EntryAfter = last.t
    /\ repoErrorCache = [last.cacheBefore EXCEPT ![repoErrorKey(last.app)] = last.t]

\* C3 witness: a first failure at a time after the start of the clock
C3_Witness ==
  /\ AcquisitionFailed
  /\ ~last.in.noRevisionCache
  /\ EntryBefore = NoEntry
  /\ last.t > 0
  /\ EntryAfter = last.t
  /\ last.out.kind = "sentinel"

\* C4: a failing pass never changes an existing first-failure timestamp (nor
\* is a timestamp ever later than the clock); with noRevisionCache false it
\* returns ErrCompareStateRepo exactly when the time since the stored
\* timestamp is at most the grace period, and a degraded result (aggregate
\* Unknown with the 'Failed to load target state' condition) once the grace
\* period has elapsed, for as long as the timestamp stays stored.
C4_GracePeriodDecides ==
  /\ \A k \in AppNames : repoErrorCache[k] <= now
  /\ (AcquisitionFailed /\ EntryBefore # NoEntry) =>
       /\ repoErrorCache = last.cacheBefore
       /\ ~last.in.noRevisionCache =>
            /\ last.out.kind = "sentinel" <=> last.t - EntryBefore <= repoErrorGracePeriod
            /\ last.t - EntryBefore > repoErrorGracePeriod => DegradedResult

\* C4 witness: a failing pass after the grace period has elapsed returns the
\* degraded result and the timestamp stays.
C4_Witness ==
  /\ AcquisitionFailed
  /\ ~last.in.noRevisionCache
  /\ EntryBefore # NoEntry
  /\ last.t - EntryBefore > repoErrorGracePeriod
  /\ DegradedResult
  /\ EntryAfter = EntryBefore

\* C5: after a pass without local manifests whose target acquisition
\* succeeds the map holds no entry for the application (and is otherwise as
\* before); a pass with local manifests, or one that stops at the settings,
\* leaves the map as it was.
C5_SuccessClearsEntry ==
  /\ AcquisitionSucceeded =>
       /\ EntryAfter = NoEntry
       /\ repoErrorCache = [last.cacheBefore EXCEPT ![repoErrorKey(last.app)] = NoEntry]
  /\ (Returned /\ (last.in.settingsErr \/ last.in.localManifests # "none")) =>
       repoErrorCache = last.cacheBefore

\* C5 witness: a success that removes a stored timestamp
C5_Witness ==
  /\ AcquisitionSucceeded
  /\ EntryBefore # NoEntry
  /\ EntryAfter = NoEntry

\* C6: with noRevisionCache true a failed target acquisition never returns
\* ErrCompareStateRepo: it returns a degraded result (aggregate Unknown and
\* the comparison-error condition) and leaves the map exactly as it was.
C6_ForcedDeepNeverSuppressed ==
  (AcquisitionFailed /\ last.in.noRevisionCache) =>
    /\ last.out.kind # "sentinel"
    /\ DegradedResult
    /\ repoErrorCache = last.cacheBefore

\* C6 witness: a forced deep comparison fails inside the grace period of a
\* stored timestamp, returns the degraded result and keeps the timestamp.
C6_Witness ==
  /\ AcquisitionFailed
  /\ last.in.noRevisionCache
  /\ EntryBefore # NoEntry
  /\ last.t - EntryBefore <= repoErrorGracePeriod
  /\ DegradedResult
  /\ EntryAfter = EntryBefore


----------------------------------------------------------------------------
(* Properties of the classification *)

\* The reconciled pairs of the last result
Pairs == IF last.out.kind = "result" THEN 1..Len(last.out.Target) ELSE {}
PairTarget(i) == last.out.Target[i]
PairLive(i) == last.out.Live[i]
PairObj(i) == IF PairLive(i) = Nil THEN PairTarget(i) ELSE PairLive(i)
PairSelfReferenced(i) ==
  isSelfReferencedObj(PairLive(i), PairTarget(i), GetName(last.app), last.in.trackingMethod)

\* The live object of pair i failed the ownership check
FailsOwnership(i) == PairLive(i) # Nil /\ ~PairSelfReferenced(i)

\* The result carries a shared-resource warning about the live object of pair i
Warned(i) ==
  \E c \in last.out.conditions :
    /\ c.Type = ApplicationConditionSharedResourceWarning
    /\ c.Key = GetResourceKey(PairLive(i))

OneSided(i) ==
  /\ (PairTarget(i) = Nil) # (PairLive(i) = Nil)
  /\ PairSelfReferenced(i)

\* C10 as stated: a self-referenced pair with exactly one of target and live
\* nil has the sync status OutOfSync unless the resource carries the
\* ignore-extraneous annotation, a managed destination namespace without a
\* live counterpart included.
C10_OneSidedOutOfSync ==
  \A i \in Pairs :
    (OneSided(i) /\ ~HasIgnoreExtraneous(PairObj(i))) =>
      last.out.resources[i].Status = SyncStatusCodeOutOfSync

\* C10: a self-referenced pair with exactly one of target and live nil has
\* the sync status Unknown when objects failed to load or its kind is not
\* permitted in the project; otherwise no status when the resource is a hook,
\* is ignored or its target is skipped; otherwise Synced when the target is
\* the application's managed destination namespace (which then has no live
\* counterpart); otherwise OutOfSync, with or without the ignore-extraneous
\* annotation.
C10_OneSidedStatus ==
  \A i \in Pairs :
    OneSided(i) =>
      last.out.resources[i].Status =
        IF \/ last.out.failedToLoadObjs
           \/ ~IsGroupKindPermitted(last.in.blacklist, PairObj(i).kind,
                                    liveStateIsNamespaced(PairObj(i).kind, last.in.infoErr))
          THEN SyncStatusCodeUnknown
        ELSE IF \/ isHook(PairObj(i))
                \/ Ignore(PairObj(i))
                \/ (PairTarget(i) # Nil /\ Skip(PairTarget(i)))
          THEN ""
        ELSE IF isManagedNamespace(PairTarget(i), last.in.managedNamespaceMetadata)
          THEN SyncStatusCodeSynced
        ELSE SyncStatusCodeOutOfSync

\* C10 witness: the application's managed destination namespace is rendered
\* and has no live counterpart; the pair is reported Synced.
C10_Witness ==
  \E i \in Pairs :
    /\ OneSided(i)
    /\ PairLive(i) = Nil
    /\ isManagedNamespace(PairTarget(i), last.in.managedNamespaceMetadata)
    /\ ~last.out.failedToLoadObjs
    /\ last.out.resources[i].Status = SyncStatusCodeSynced


----------------------------------------------------------------------------
(* Concurrent passes: one worker per application, interleaved at the       *)
(* accesses to repoErrorCache                                              *)

\* m.GetRepoObjs returns to the worker of app, with or without an error
GetRepoObjs(app) ==
  /\ pc[app].at = "idle"
  /\ \E repoErr \in BOOLEAN, nrc \in BOOLEAN :
       pc' = [pc EXCEPT ![app] = [at |-> IF repoErr THEN "failed" ELSE "succeeded",
                                  noRevisionCache |-> nrc]]
  /\ actor' = app
  /\ UNCHANGED <<repoErrorCache, now, last, own, fn, loaded>>

\* m.repoErrorCache.Load(app.Name)
Load(app) ==
  /\ pc[app].at = "failed"
  /\ loaded' = [loaded EXCEPT ![app] = repoErrorCache[repoErrorKey(app)]]
  /\ pc' = [pc EXCEPT ![app].at = "loaded"]
  /\ actor' = app
  /\ UNCHANGED <<repoErrorCache, now, last, own, fn>>

\* The branches after Load: m.repoErrorCache.Store(app.Name, time.Now()) on a
\* first failure, no access otherwise; the pass returns or goes on without
\* another access to the map.
StoreOrGoOn(app) ==
  /\ pc[app].at = "loaded"
  /\ repoErrorCache' =
       IF repoErrorDecision(loaded[app], now, pc[app].noRevisionCache) = "store"
       THEN [repoErrorCache EXCEPT ![repoErrorKey(app)] = now]
       ELSE repoErrorCache
  /\ pc' = [pc EXCEPT ![app] = Idle]
  /\ loaded' = [loaded EXCEPT ![app] = NoEntry]
  /\ actor' = app
  /\ UNCHANGED <<now, last, own, fn>>

\* m.repoErrorCache.Delete(app.Name); the pass goes on without another access
Delete(app) ==
  /\ pc[app].at = "succeeded"
  /\ repoErrorCache' = [repoErrorCache EXCEPT ![repoErrorKey(app)] = NoEntry]
  /\ pc' = [pc EXCEPT ![app] = Idle]
  /\ actor' = app
  /\ UNCHANGED <<now, last, own, fn, loaded>>

NextConc ==
  \/ \E app \in Apps : GetRepoObjs(app)
  \/ \E app \in Apps : Load(app)
  \/ \E app \in Apps : StoreOrGoOn(app)
  \/ \E app \in Apps : Delete(app)
  \/ Tick

\* The workers of all applications, running at once
SpecConc == Init /\ [][NextConc]_vars

\* C7: under any interleaving of passes for different applications
\* (different in name or in namespace), the grace-period entry of an
\* application is created and removed only by steps of that application's
\* own passes.
C7_EntryTouchedOnlyByOwnPasses ==
  [][\A app \in Apps :
       repoErrorCache'[repoErrorKey(app)] # repoErrorCache[repoErrorKey(app)] =>
         actor' = app]_vars

----------------------------------------------------------------------------
(* Properties of the aggregate sync status *)

\* Faulty variant: the default branch of the switch assigns Synced to the
\* aggregate as well
syncCodeWalkResets(flips, k) ==
  IF k = 0 THEN SyncStatusCodeSynced
  ELSE IF flips[k] THEN SyncStatusCodeOutOfSync
  ELSE SyncStatusCodeSynced

\* syncCode after the first k iterations of the loop over the pairs, given
\* for each pair whether its iteration assigns OutOfSync: the loop starts
\* from Synced and has no other assignment.
RECURSIVE syncCodeWalk(_, _)
syncCodeWalk(flips, k) ==
  IF k = 0 THEN SyncStatusCodeSynced
  ELSE IF flips[k] THEN SyncStatusCodeOutOfSync
  ELSE syncCodeWalk(flips, k - 1)

\* The last pass returned a result with no failure to load objects and no
\* change of the managed-namespace metadata
PlainResult ==
  /\ Returned
  /\ last.out.kind = "result"
  /\ ~last.out.failedToLoadObjs
  /\ ~last.in.changedManagedNamespaceMetadata

PairModified(i) == diffModified(PairTarget(i), PairLive(i), last.in.modified, last.in.diffErr)

\* The switch's branch for pair i
PairCase(i) ==
  IF PairObj(i) = Nil THEN "none"
  ELSE resourceCase(PairTarget(i), PairLive(i), PairObj(i), PairSelfReferenced(i),
                    last.in.managedNamespaceMetadata, PairModified(i))

\* Pair i is a prune candidate that carries the ignore-extraneous annotation
Excused(i) ==
  /\ PairTarget(i) = Nil
  /\ PairLive(i) # Nil
  /\ HasIgnoreExtraneous(PairLive(i))

\* The kind of pair i is not permitted in the project
NotPermitted(i) ==
  /\ PairObj(i) # Nil
  /\ ~IsGroupKindPermitted(last.in.blacklist, PairObj(i).kind,
                           liveStateIsNamespaced(PairObj(i).kind, last.in.infoErr))

\* For each pair of the last result, whether its iteration assigns OutOfSync
\* to the aggregate
PairFlips ==
  [i \in Pairs |->
     pairFlips(PairTarget(i), PairLive(i), GetName(last.app), last.in.trackingMethod,
               last.in.managedNamespaceMetadata, last.in.modified, last.in.diffErr)]

ExcusedPruneCandidate(i) == Excused(i) /\ PairSelfReferenced(i)

\* Every resource of the result but i is Synced
OthersSynced(i) ==
  \A j \in Pairs \ {i} : last.out.resources[j].Status = SyncStatusCodeSynced

\* A pair with a target is OutOfSync and its object carries the annotation
AnnotatedWithTarget(i) ==
  /\ PairTarget(i) # Nil
  /\ HasIgnoreExtraneous(PairObj(i))
  /\ last.out.resources[i].Status = SyncStatusCodeOutOfSync

\* C12 as stated: a self-referenced live object without target that carries
\* the ignore-extraneous annotation has the status OutOfSync and requires
\* pruning; with every other resource Synced, no load failure and no change
\* of managed-namespace metadata the aggregate is Synced; an annotated
\* resource that has a target and is OutOfSync makes the aggregate OutOfSync.
C12_ExcusedIsOutOfSync ==
  (Returned /\ last.out.kind = "result") =>
    \A i \in Pairs :
      /\ ExcusedPruneCandidate(i) =>
           /\ last.out.resources[i].Status = SyncStatusCodeOutOfSync
           /\ last.out.resources[i].RequiresPruning
           /\ (PlainResult /\ OthersSynced(i)) =>
                last.out.syncStatus = SyncStatusCodeSynced
      /\ (AnnotatedWithTarget(i) /\ ~last.out.failedToLoadObjs) =>
           last.out.syncStatus = SyncStatusCodeOutOfSync

\* C12: a self-referenced live object without target that carries the
\* ignore-extraneous annotation requires pruning; its status is Unknown when
\* objects failed to load or its kind is not permitted, empty when it is a
\* hook or ignored, and OutOfSync otherwise; with every other resource
\* Synced, no load failure and no change of managed-namespace metadata the
\* aggregate is Synced; an annotated resource that has a target and is
\* OutOfSync makes the aggregate OutOfSync.
C12_ExcusedPruneCandidate ==
  (Returned /\ last.out.kind = "result") =>
    \A i \in Pairs :
      /\ ExcusedPruneCandidate(i) =>
           /\ last.out.resources[i].Status =
                IF last.out.failedToLoadObjs \/ NotPermitted(i) THEN SyncStatusCodeUnknown
                ELSE IF isHook(PairLive(i)) \/ Ignore(PairLive(i)) THEN ""
                ELSE SyncStatusCodeOutOfSync
           /\ last.out.resources[i].RequiresPruning
           /\ (PlainResult /\ OthersSynced(i)) =>
                last.out.syncStatus = SyncStatusCodeSynced
      /\ (AnnotatedWithTarget(i) /\ ~last.out.failedToLoadObjs) =>
           last.out.syncStatus = SyncStatusCodeOutOfSync

\* C12 witness: an annotated live object without target is OutOfSync and
\* requires pruning, another resource is Synced, and the aggregate is Synced.
C12_Witness ==
  /\ PlainResult
  /\ last.out.syncStatus = SyncStatusCodeSynced
  /\ \E i \in Pairs :
       /\ ExcusedPruneCandidate(i)
       /\ last.out.resources[i].Status = SyncStatusCodeOutOfSync
       /\ last.out.resources[i].RequiresPruning
       /\ OthersSynced(i)
       /\ Pairs # {i}


\* C13: every resource of a result whose group-kind is not permitted in the
\* project has the status Unknown, whatever the switch made of it.
C13_NotPermittedIsUnknown ==
  (Returned /\ last.out.kind = "result") =>
    \A i \in Pairs :
      NotPermitted(i) => last.out.resources[i].Status = SyncStatusCodeUnknown

\* C13 witness: with no load failure, a skipped target of a kind that is not
\* permitted, which the switch leaves without a status, is reported Unknown.
C13_Witness ==
  /\ Returned
  /\ last.out.kind = "result"
  /\ ~last.out.failedToLoadObjs
  /\ \E i \in Pairs :
       /\ NotPermitted(i)
       /\ PairCase(i) = "skipped"
       /\ last.out.resources[i].Status = SyncStatusCodeUnknown


\* C14: a pass without load failure whose application has changed
\* managed-namespace metadata returns the aggregate OutOfSync, whatever the
\* resources' statuses; a pass with a load failure returns the aggregate
\* Unknown, changed metadata or not.
C14_MetadataChangeAndLoadFailure ==
  (Returned /\ last.out.kind = "result") =>
    /\ (~last.out.failedToLoadObjs /\ last.in.changedManagedNamespaceMetadata) =>
         last.out.syncStatus = SyncStatusCodeOutOfSync
    /\ last.out.failedToLoadObjs => last.out.syncStatus = SyncStatusCodeUnknown

\* C14 witness: the metadata has changed, nothing failed to load, there are
\* resources and each is Synced, and the aggregate is OutOfSync.
C14_Witness ==
  /\ Returned
  /\ last.out.kind = "result"
  /\ ~last.out.failedToLoadObjs
  /\ last.in.changedManagedNamespaceMetadata
  /\ Pairs # {}
  /\ \A i \in Pairs : last.out.resources[i].Status = SyncStatusCodeSynced
  /\ last.out.syncStatus = SyncStatusCodeOutOfSync


----------------------------------------------------------------------------
(* Properties of the managed namespace *)

\* The application's managed destination namespace is among the manifests
\* the target phase delivered
NamespaceRendered ==
  /\ TargetsDelivered
  /\ \E k \in 1..Len(last.in.rendered) :
       isManagedNamespace(last.in.rendered[k], last.in.managedNamespaceMetadata)

\* The live object of pair i is the application's managed destination namespace
LiveManagedNamespace(i) ==
  isManagedNamespace(PairLive(i), last.in.managedNamespaceMetadata)

\* The target of pair i is the namespace the pass synthesizes for its live object
SynthesizedTarget(i) ==
  /\ PairLive(i) # Nil
  /\ PairTarget(i) = managedNs(PairLive(i))

\* No target of the result is a synthesized namespace, and the live
\* namespace of pair i, if paired, is paired with the rendered one
RenderedTargetUsed(i) ==
  /\ \A j \in Pairs : PairTarget(j) = Nil \/ PairTarget(j) # managedNs(PairTarget(j))
  /\ PairTarget(i) # Nil =>
        \E k \in 1..Len(last.in.rendered) :
          /\ isManagedNamespace(last.in.rendered[k], last.in.managedNamespaceMetadata)
          /\ PairTarget(i).name = last.in.rendered[k].name
          /\ PairTarget(i).tracking # Nil

----------------------------------------------------------------------------
(* DeduplicateTargetObjects on its own *)

\* An object without name that asks the cluster to generate one
Generated(g, k, ns, gen, ext) ==
  [Obj(g, k, ns, <<>>, "plain", ext, Nil, NoApp) EXCEPT !.generateName = gen]

\* The lists passed in: objects that differ in namespace only, in the
\* destination namespace or without namespace, of a namespaced and of a
\* cluster-scoped kind, told apart by the ext field; objects with generated
\* names and one whose name is a generated name followed by an index; nil.
DedupPool ==
  {Nil,
   Obj("apps", "Deployment", "", X, "plain", FALSE, Nil, NoApp),
   Obj("apps", "Deployment", DestinationNamespace, X, "plain", TRUE, Nil, NoApp),
   Obj("apps", "Deployment", "other", X, "plain", FALSE, Nil, NoApp),
   Obj("", NamespaceKind, "", DestinationNamespaceName, "plain", FALSE, Nil, NoApp),
   Obj("", NamespaceKind, DestinationNamespace, DestinationNamespaceName, "plain", TRUE, Nil, NoApp),
   Generated("apps", "Deployment", DestinationNamespace, X, FALSE),
   Obj("apps", "Deployment", DestinationNamespace, X \o <<"1">>, "plain", TRUE, Nil, NoApp)}

InitDedup ==
  /\ repoErrorCache = [n \in AppNames |-> NoEntry]
  /\ now = 0
  /\ last = NoCall
  /\ own = NoOwnCall
  /\ fn \in [op : {"dedup"}, objs : SeqsUpTo(DedupPool, MaxObjs),
             infoProvider : {"cache", "stub"}, mapOrder : {"fwd", "rev"},
             called : {FALSE}, result : {Nil}]
  /\ pc = [a \in Apps |-> Idle]
  /\ loaded = [a \in Apps |-> NoEntry]
  /\ actor = Nil

\* DeduplicateTargetObjects(app.Spec.Destination.Namespace, objs, infoProvider)
CallDeduplicateTargetObjects ==
  /\ fn.op = "dedup"
  /\ ~fn.called
  /\ fn' = [fn EXCEPT
              !.called = TRUE,
              !.result = DeduplicateTargetObjects(DestinationNamespace, fn.objs,
                                                  fn.infoProvider, fn.mapOrder)]
  /\ UNCHANGED <<repoErrorCache, now, last, own, pc, loaded, actor>>

NextDedup == CallDeduplicateTargetObjects

SpecDedup == InitDedup /\ [][NextDedup]_vars

DedupCalled == fn.op = "dedup" /\ fn.called

\* The non-nil positions of the list passed in
DedupIdx == {i \in 1..Len(fn.objs) : fn.objs[i] # Nil}

\* Object i after namespace normalisation: no namespace for a cluster-scoped
\* kind, the destination namespace for a namespaced object without one
DedupNormal(i) ==
  IF ~IsNamespacedOrUnknown(fn.infoProvider, fn.objs[i].kind)
    THEN [fn.objs[i] EXCEPT !.namespace = ""]
  ELSE IF fn.objs[i].namespace = ""
    THEN [fn.objs[i] EXCEPT !.namespace = DestinationNamespace]
  ELSE fn.objs[i]

\* The resource key of object i after namespace normalisation
PlainKey(i) == GetResourceKey(DedupNormal(i))

\* The key object i is filed under: the resource key, with the name replaced
\* by the generated name followed by the object's index when the object has
\* no name but a generated one
FiledKey(i) ==
  IF fn.objs[i].name = <<>> /\ fn.objs[i].generateName # <<>>
    THEN [PlainKey(i) EXCEPT !.Name = fn.objs[i].generateName \o Digits(i - 1)]
    ELSE PlainKey(i)

\* The result holds, for each key of K, the last object of the key and
\* nothing else; the conditions are one repeated-resource warning with the
\* count for each key of more than one object and nothing else.
DedupByKey(K(_)) ==
  LET keys == {K(i) : i \in DedupIdx}
      lastOf(k) == CHOOSE i \in DedupIdx : K(i) = k /\ \A j \in DedupIdx : K(j) = k => j <= i
      count(k) == Cardinality({i \in DedupIdx : K(i) = k})
      res == fn.result.objs
      expected == {DedupNormal(lastOf(k)) : k \in keys}
  IN /\ Len(res) = Cardinality(keys)
     /\ \A o \in expected \cup {res[n] : n \in 1..Len(res)} :
          Cardinality({n \in 1..Len(res) : res[n] = o}) =
            Cardinality({k \in keys : DedupNormal(lastOf(k)) = o})
     /\ fn.result.conditions =
          {Condition(ApplicationConditionRepeatedResourceWarning,
                     "appeared multiple times among application resources",
                     k, count(k), NoApp) : k \in {q \in keys : count(q) > 1}}

HasGeneratedName(obj) == obj.name = <<>> /\ obj.generateName # <<>>

\* C29 as stated: every object of the list passed to DeduplicateTargetObjects
\* that has no name but a generated name is in the result, as many of them
\* as were passed in, and no repeated-resource warning names the key such an
\* object is filed under.
C29_GeneratedNameNeverDropped ==
  DedupCalled =>
    /\ \A i \in DedupIdx :
         HasGeneratedName(fn.objs[i]) =>
           /\ \E n \in 1..Len(fn.result.objs) : fn.result.objs[n] = DedupNormal(i)
           /\ \A c \in fn.result.conditions : c.Key # FiledKey(i)
    /\ Cardinality({n \in 1..Len(fn.result.objs) : HasGeneratedName(fn.result.objs[n])}) =
         Cardinality({i \in DedupIdx : HasGeneratedName(fn.objs[i])})

----------------------------------------------------------------------------
(* The normalisation phase on its own: normalizeClusterScopeTracking and   *)
(* DeduplicateTargetObjects                                                *)

\* The rendered manifests of the application: objects of a cluster-scoped
\* kind that the repo server tagged with a namespace (and tracked under it),
\* one that it did not, and objects of a namespaced kind.
NormPool ==
  LET val == InstanceName(TheApp) IN
  {Obj("", NamespaceKind, "other", X, "plain", FALSE,
       Tracked(val, "", NamespaceKind, "other", X), val),
   Obj("", NamespaceKind, "other", Y, "plain", FALSE,
       Tracked(val, "", NamespaceKind, "other", Y), val),
   Obj("", NamespaceKind, "", DestinationNamespaceName, "plain", FALSE,
       Tracked(val, "", NamespaceKind, "", DestinationNamespaceName), val),
   Obj("apps", "Deployment", "other", X, "plain", FALSE,
       Tracked(val, "apps", "Deployment", "other", X), val),
   Obj("apps", "Deployment", "", Y, "plain", FALSE,
       Tracked(val, "apps", "Deployment", "", Y), val)}

InitNorm ==
  /\ repoErrorCache = [n \in AppNames |-> NoEntry]
  /\ now = 0
  /\ last = NoCall
  /\ own = NoOwnCall
  /\ fn \in [op : {"normalize"}, objs : SeqsUpTo(NormPool, MaxObjs),
             infoProvider : {"cache", "stub"},
             trackingMethod : {TrackingMethodAnnotation, TrackingMethodLabel},
             setAppInstanceErr : SUBSET {X, Y},
             called : {FALSE}, result : {Nil}]
  /\ pc = [a \in Apps |-> Idle]
  /\ loaded = [a \in Apps |-> NoEntry]
  /\ actor = Nil

\* The normalisation phase of CompareAppState on targetObjs, and the
\* correction applied once more to what it left
CallNormalize ==
  /\ fn.op = "normalize"
  /\ ~fn.called
  /\ LET norm == normalizeClusterScopeTracking(fn.objs, fn.infoProvider, InstanceName(TheApp),
                                               fn.trackingMethod, fn.setAppInstanceErr)
     IN fn' = [fn EXCEPT
                 !.called = TRUE,
                 !.result =
                   [norm |-> norm,
                    dedup |-> DeduplicateTargetObjects(DestinationNamespace, norm.objs,
                                                       fn.infoProvider, "fwd"),
                    again |-> normalizeClusterScopeTracking(
                                norm.objs, fn.infoProvider, InstanceName(TheApp),
                                fn.trackingMethod, fn.setAppInstanceErr)]]
  /\ UNCHANGED <<repoErrorCache, now, last, own, pc, loaded, actor>>

NextNorm == CallNormalize

SpecNorm == InitNorm /\ [][NextNorm]_vars

NormCalled == fn.op = "normalize" /\ fn.called

\* The info provider in use reports the kind as cluster-scoped
ClusterScoped(kind) == ~IsNamespacedOrUnknown(fn.infoProvider, kind)

\* The target objects after the phase, and for each the position of the
\* object of the list passed in that it stems from (the last of its key)
NormAfter == 1..Len(fn.result.dedup.objs)
NormOrigin(n) ==
  LET o == fn.result.dedup.objs[n]
      same == {i \in 1..Len(fn.objs) : fn.objs[i].kind = o.kind /\ fn.objs[i].name = o.name}
  IN CHOOSE i \in same : \A j \in same : j <= i

\* Object i of the list is of a cluster-scoped kind and has a namespace
Malformed(i) == ClusterScoped(fn.objs[i].kind) /\ fn.objs[i].namespace # ""

\* Object i with its namespace cleared and its tracking metadata regenerated
Regenerated(i) ==
  SetAppInstance([fn.objs[i] EXCEPT !.namespace = ""], InstanceName(TheApp),
                 DestinationNamespace, fn.trackingMethod)

\* The tracking metadata of a is that of b
SameTracking(a, b) == a.tracking = b.tracking /\ a.label = b.label

\* Regenerating fails for an object at position i or later, where the
\* correction, which runs from the end of the list, stops
StoppedAt(i) ==
  \E k \in i..Len(fn.objs) : Malformed(k) /\ fn.objs[k].name \in fn.setAppInstanceErr

\* C17 as stated: after the phase every object of a cluster-scoped kind has
\* no namespace and, if it had one and regenerating its own annotation does
\* not fail, carries the regenerated annotation, whether or not regenerating
\* fails for another object; no other object's annotation changes; the
\* correction applied again changes nothing.
C17_EveryObjectCorrected ==
  NormCalled =>
    /\ \A n \in NormAfter :
         LET o == fn.result.dedup.objs[n]
             i == NormOrigin(n)
         IN /\ ClusterScoped(o.kind) => o.namespace = ""
            /\ (Malformed(i) /\ fn.objs[i].name \notin fn.setAppInstanceErr) =>
                 o = Regenerated(i)
            /\ ~Malformed(i) => SameTracking(o, fn.objs[i])
    /\ fn.result.again.objs = fn.result.norm.objs

\* C17: after the phase every object of a cluster-scoped kind has no
\* namespace; an object of a cluster-scoped kind that had a namespace carries
\* the regenerated annotation unless regenerating failed for it or for an
\* object after it in the list, in which case it keeps the annotation it
\* had; no other object's annotation changes; when no regeneration failed,
\* the correction applied again changes nothing.
C17_CorrectedUntilFailure ==
  NormCalled =>
    /\ \A n \in NormAfter :
         LET o == fn.result.dedup.objs[n]
             i == NormOrigin(n)
         IN /\ ClusterScoped(o.kind) => o.namespace = ""
            /\ IF Malformed(i) /\ ~StoppedAt(i)
                 THEN o = Regenerated(i)
                 ELSE SameTracking(o, fn.objs[i])
    /\ fn.result.norm.err = StoppedAt(1)
    /\ ~fn.result.norm.err => fn.result.again = fn.result.norm

\* C17 witness: regenerating fails for an object; an object before it in the
\* list, for which it would not fail, ends without namespace and with the
\* annotation that names its former namespace.
C17_Witness ==
  /\ NormCalled
  /\ fn.trackingMethod = TrackingMethodAnnotation
  /\ fn.result.norm.err
  /\ \E n \in NormAfter :
       LET o == fn.result.dedup.objs[n]
           i == NormOrigin(n)
       IN /\ Malformed(i)
          /\ fn.objs[i].name \notin fn.setAppInstanceErr
          /\ o.namespace = ""
          /\ o.tracking = fn.objs[i].tracking
          /\ o.tracking.Namespace = "other"


----------------------------------------------------------------------------
(* useDiffCache on its own *)

\* The sources passed in, the application's spec that declares them (as its
\* one source or as its list of sources) and the snapshots the last
\* comparison may have left
SourceLists == SeqsUpTo({"s"}, MaxSources)
SpecsOf(sources) ==
  {[Destination |-> "d", Source |-> "s", Sources |-> <<>>],
   [Destination |-> "d", Source |-> "", Sources |-> sources]}
Snapshots(spec, sources) ==
  {BuildComparedToStatus(spec, sources),
   BuildComparedToStatus([spec EXCEPT !.Destination = "e"], sources),
   BuildComparedToStatus([spec EXCEPT !.Source = "t"], sources \o <<"t">>)}
RecordedRevisions ==
  {[Revision |-> r, Revisions |-> <<>>] : r \in {"", "r1", "r2"}}
  \cup {[Revision |-> "", Revisions |-> rs] : rs \in SeqsUpTo({"r1", "r2"}, MaxSources) \ {<<>>}}

InitDiffCache ==
  /\ repoErrorCache = [n \in AppNames |-> NoEntry]
  /\ now = 0
  /\ last = NoCall
  /\ own = NoOwnCall
  /\ \E sources \in SourceLists :
       \E spec \in SpecsOf(sources), rec \in RecordedRevisions :
         \E snapshot \in Snapshots(spec, sources) :
           fn \in [op : {"useDiffCache"}, noCache : BOOLEAN, refreshRequested : BOOLEAN,
                   expired : BOOLEAN, serverSideDiff : BOOLEAN,
                   nManifestInfos : 0..MaxSources, sources : {sources}, spec : {spec},
                   sync : {[Revision |-> rec.Revision, Revisions |-> rec.Revisions,
                            ComparedTo |-> snapshot]},
                   manifestRevisions : SeqsUpTo({"r1"}, MaxSources),
                   called : {FALSE}, result : {FALSE}]
  /\ pc = [a \in Apps |-> Idle]
  /\ loaded = [a \in Apps |-> NoEntry]
  /\ actor = Nil

CallUseDiffCache ==
  /\ fn.op = "useDiffCache"
  /\ ~fn.called
  /\ fn' = [fn EXCEPT
              !.called = TRUE,
              !.result = useDiffCache(fn.noCache, fn.nManifestInfos, fn.sources,
                                      fn.refreshRequested, fn.expired, fn.sync, fn.spec,
                                      fn.manifestRevisions, fn.serverSideDiff)]
  /\ UNCHANGED <<repoErrorCache, now, last, own, pc, loaded, actor>>

NextDiffCache == CallUseDiffCache

SpecDiffCache == InitDiffCache /\ [][NextDiffCache]_vars

DiffCacheCalled == fn.op = "useDiffCache" /\ fn.called

\* C18: useDiffCache returns true if and only if noCache is false, no
\* refresh is requested, the status is not expired or server-side diff is
\* enabled, there are as many render responses as sources, the recorded
\* revisions equal the resolved manifest revisions and the declared spec
\* equals the last compared-to snapshot.
C18_UseDiffCacheIff ==
  DiffCacheCalled =>
    (fn.result <=>
       /\ ~fn.noCache
       /\ ~fn.refreshRequested
       /\ (~fn.expired \/ fn.serverSideDiff)
       /\ fn.nManifestInfos = Len(fn.sources)
       /\ GetRevisions(fn.sync) = fn.manifestRevisions
       /\ fn.sync.ComparedTo = BuildComparedToStatus(fn.spec, fn.sources))

\* C18 witness: the status is expired, server-side diff is enabled and
\* nothing else stands in the way; the cache is used.
C18_Witness ==
  /\ DiffCacheCalled
  /\ fn.expired
  /\ fn.serverSideDiff
  /\ Len(fn.sources) > 0
  /\ fn.result


----------------------------------------------------------------------------
(* GetRepoObjs on its own *)

\* A revision: a name (empty when none is given), as declared or supplied,
\* or as UpdateRevisionForPaths resolved it
Revision(name) == [name |-> name, resolved |-> FALSE]
NoRevision == Revision("")
ResolvedRevision(revision) == [revision EXCEPT !.resolved = TRUE]

\* A call GetRepoObjs issues for source i (1-based)
RepoCall(op, i, revision) == [op |-> op, source |-> i, revision |-> revision]

\* What GetRepoObjs returns, with the calls it issued and the revisions
\* slice as it leaves it; kind "panic" is a run-time panic in place of a return
RepoReturn(kind, targetObjs, manifestInfos, revisionsMayHaveChanges, err, st) ==
  [kind |-> kind, targetObjs |-> targetObjs, manifestInfos |-> manifestInfos,
   revisionsMayHaveChanges |-> revisionsMayHaveChanges, err |-> err,
   calls |-> st.calls, revisions |-> st.revisions]

NoRepoError == [step |-> "", ordinal |-> 0, of |-> 0]

\* Faulty variant: on an error what was gathered so far is returned with it
repoErrorKeepsPartial(step, ordinal, of, st) ==
  RepoReturn("error", st.targetObjs, st.manifestInfos, st.revisionsMayHaveChanges,
             [step |-> step, ordinal |-> ordinal, of |-> of], st)

\* return nil, nil, false, fmt.Errorf(...): ordinal and of are 0 when the
\* message names no source
repoError(step, ordinal, of, st) ==
  RepoReturn("error", <<>>, <<>>, FALSE, [step |-> step, ordinal |-> ordinal, of |-> of], st)

\* The call op for source i fails
RepoFails(env, op, i) == env.fail = [step |-> op, source |-> i]

\* The first statement of the iteration for source i assigns to
\* revisions[i] beyond the end of the slice
repoOutOfRange(sources, revisions, i) ==
  Len(revisions) < Len(sources) /\ i > Len(revisions)

\* The revisions slice after the first statement of the iteration for
\* source i, when the assignment is within range
repoRevisions(sources, revisions, i) ==
  IF Len(revisions) < Len(sources) \/ revisions[i] = NoRevision
  THEN [revisions EXCEPT ![i] = sources[i].TargetRevision]
  ELSE revisions

\* The iteration from the manifest generation on, with the revision to render
repoRender(sources, env, i, st, revision) ==
  LET called == [st EXCEPT !.calls = Append(@, RepoCall("GenerateManifest", i, revision))] IN
  IF RepoFails(env, "GenerateManifest", i)
    THEN repoError("generate manifest", i, Len(sources), called)
  ELSE IF RepoFails(env, "unmarshalManifests", i)
    THEN repoError("unmarshal manifests", i, Len(sources), called)
  ELSE [called EXCEPT
          !.targetObjs = @ \o sources[i].manifests,
          !.manifestInfos = Append(@, [source |-> i, Revision |-> revision])]

\* app.Annotations[v1alpha1.AnnotationKeyManifestGeneratePaths]: whether the
\* key exists and its value
NoAnnotation == [exists |-> FALSE, val |-> ""]
Annotation(val) == [exists |-> TRUE, val |-> val]

\* What GetRepoObjs reads of the application: app.Spec.HasMultipleSources(),
\* app.Status.Sync.Revision and app.Status.Sync.Revisions
SyncedApp(hasMultipleSources, revision, revisions) ==
  [hasMultipleSources |-> hasMultipleSources, Revision |-> revision, Revisions |-> revisions]

IsHelm(source) == source.kind = "chart"
IsOCI(source) == source.kind = "oci"

\* syncedRevision of the iteration for source i
syncedRevision(app, i) ==
  IF app.hasMultipleSources
  THEN IF i <= Len(app.Revisions) THEN app.Revisions[i] ELSE ""
  ELSE app.Revision

\* The condition under which UpdateRevisionForPaths is called for source i
checksPaths(sources, env, i) ==
  /\ ~IsHelm(sources[i])
  /\ ~IsOCI(sources[i])
  /\ syncedRevision(env.app, i) # ""
  /\ env.annotation.exists
  /\ env.annotation.val # ""

\* Faulty variant: the answer of the check for the source at hand replaces
\* what the sources before it gave
repoPathsLastCheckDecides(sources, env, i, st) ==
  IF RepoFails(env, "GetRepository", i) THEN repoError("get repo", 0, 0, st)
  ELSE IF checksPaths(sources, env, i)
    THEN IF RepoFails(env, "UpdateRevisionForPaths", i)
           THEN repoError("compare revisions", i, Len(sources),
                  [st EXCEPT !.calls = Append(@, RepoCall("UpdateRevisionForPaths", i,
                                                          st.revisions[i]))])
           ELSE repoRender(sources, env, i,
                  [st EXCEPT !.calls = Append(@, RepoCall("UpdateRevisionForPaths", i,
                                                          st.revisions[i])),
                             !.revisionsMayHaveChanges = i \in env.changes],
                  IF env.resolves THEN ResolvedRevision(st.revisions[i]) ELSE st.revisions[i])
    ELSE repoRender(sources, env, i, [st EXCEPT !.revisionsMayHaveChanges = TRUE],
                    st.revisions[i])

\* The iteration from GetRepository to the manifest generation
repoPaths(sources, env, i, st) ==
  IF RepoFails(env, "GetRepository", i) THEN repoError("get repo", 0, 0, st)
  ELSE IF checksPaths(sources, env, i)
    THEN IF RepoFails(env, "UpdateRevisionForPaths", i)
           THEN repoError("compare revisions", i, Len(sources),
                  [st EXCEPT !.calls = Append(@, RepoCall("UpdateRevisionForPaths", i,
                                                          st.revisions[i]))])
           ELSE repoRender(sources, env, i,
                  [st EXCEPT !.calls = Append(@, RepoCall("UpdateRevisionForPaths", i,
                                                          st.revisions[i])),
                             !.revisionsMayHaveChanges = @ \/ i \in env.changes],
                  IF env.resolves THEN ResolvedRevision(st.revisions[i]) ELSE st.revisions[i])
    ELSE repoRender(sources, env, i, [st EXCEPT !.revisionsMayHaveChanges = TRUE],
                    st.revisions[i])

\* The loop over the sources, from source i on. st holds targetObjs,
\* manifestInfos, revisionsMayHaveChanges, the revisions slice and the calls
\* issued so far; a record with the field kind is what the function returned.
RECURSIVE repoLoop(_, _, _, _)

\* After the iteration for source i: r is what the function returned in it,
\* or the state the next iteration starts from
repoNext(sources, env, i, r) ==
  IF "kind" \in DOMAIN r THEN r ELSE repoLoop(sources, env, i + 1, r)

repoLoop(sources, env, i, st) ==
  IF i > Len(sources)
    THEN RepoReturn("ok", st.targetObjs, st.manifestInfos, st.revisionsMayHaveChanges,
                    NoRepoError, st)
  ELSE IF repoOutOfRange(sources, st.revisions, i)
    THEN RepoReturn("panic", <<>>, <<>>, FALSE, NoRepoError, st)
  ELSE repoNext(sources, env, i,
         repoPaths(sources, env, i,
                   [st EXCEPT !.revisions = repoRevisions(sources, st.revisions, i)]))

\* m.GetRepoObjs(app, sources, appLabelKey, revisions, ...). env: whether a
\* call before the loop fails, which call of the loop fails, the annotation
\* and the sync status of the application, the sources whose paths
\* UpdateRevisionForPaths reports as changed, and whether it resolves the
\* revision.
GetRepoObjsCall(sources, revisions, env) ==
  LET st == [targetObjs |-> <<>>, manifestInfos |-> <<>>, revisionsMayHaveChanges |-> FALSE,
             revisions |-> revisions, calls |-> <<>>]
  IN IF RepoFails(env, "setup", 0) THEN repoError("setup", 0, 0, st)
     ELSE repoLoop(sources, env, 1, st)

\* The sources of the application, the revisions the caller supplies and the
\* answers of the collaborators
RepoSources ==
  SeqsUpTo({[TargetRevision |-> Revision("t1"), manifests |-> <<"m1">>, kind |-> "git"],
            [TargetRevision |-> Revision("t2"), manifests |-> <<"m2", "m3">>, kind |-> "git"]},
           MaxSources)
RepoRevisions == SeqsUpTo({NoRevision, Revision("r")}, MaxSources)
RepoSteps == {"GetRepository", "UpdateRevisionForPaths", "GenerateManifest", "unmarshalManifests"}
NoRepoFault == [step |-> "", source |-> 0]
RepoFaults ==
  {NoRepoFault, [step |-> "setup", source |-> 0]}
  \cup [step : RepoSteps, source : 1..MaxSources]

InitRepo ==
  /\ repoErrorCache = [n \in AppNames |-> NoEntry]
  /\ now = 0
  /\ last = NoCall
  /\ own = NoOwnCall
  /\ fn \in [op : {"GetRepoObjs"}, sources : RepoSources, revisions : RepoRevisions,
             env : [fail : RepoFaults, annotation : {NoAnnotation, Annotation("paths")},
                    app : {SyncedApp(FALSE, "s", <<>>)},
                    changes : {{}, 1..MaxSources},
                    resolves : BOOLEAN],
             called : {FALSE}, result : {Nil}]
  /\ pc = [a \in Apps |-> Idle]
  /\ loaded = [a \in Apps |-> NoEntry]
  /\ actor = Nil

CallGetRepoObjs ==
  /\ fn.op = "GetRepoObjs"
  /\ ~fn.called
  /\ fn' = [fn EXCEPT !.called = TRUE,
                      !.result = GetRepoObjsCall(fn.sources, fn.revisions, fn.env)]
  /\ UNCHANGED <<repoErrorCache, now, last, own, pc, loaded, actor>>

NextRepo == CallGetRepoObjs

SpecRepo == InitRepo /\ [][NextRepo]_vars

RepoCalled == fn.op = "GetRepoObjs" /\ fn.called

\* The call op for source k was issued (manifests are parsed when they were
\* generated)
RepoIssued(op, k) ==
  \E n \in 1..Len(fn.result.calls) :
    /\ fn.result.calls[n].source = k
    /\ fn.result.calls[n].op =
         IF op = "unmarshalManifests" THEN "GenerateManifest" ELSE op

\* The message of the error each failing call of the loop is wrapped in
RepoMessage(op) ==
  CASE op = "UpdateRevisionForPaths" -> "compare revisions"
    [] op = "GenerateManifest" -> "generate manifest"
    [] op = "unmarshalManifests" -> "unmarshal manifests"

\* The manifests of the first k sources, in source order
RECURSIVE ManifestsUpTo(_)
ManifestsUpTo(k) ==
  IF k = 0 THEN <<>> ELSE ManifestsUpTo(k - 1) \o fn.sources[k].manifests

\* C19: when the path-change check, the render call or the manifest parse
\* fails for source k of n, GetRepoObjs returns an error naming k of n with
\* no target objects, no responses and revisionsMayHaveChanges false, having
\* issued no call for a source after k; when it succeeds it returns one
\* response per source in source order and the sources' target objects
\* concatenated in that order.
C19_AllOrNothing ==
  RepoCalled =>
    /\ \A k \in 1..Len(fn.sources) :
         \A op \in {"UpdateRevisionForPaths", "GenerateManifest", "unmarshalManifests"} :
           (RepoFails(fn.env, op, k) /\ RepoIssued(op, k)) =>
             /\ fn.result.kind = "error"
             /\ fn.result.err = [step |-> RepoMessage(op), ordinal |-> k,
                                 of |-> Len(fn.sources)]
             /\ fn.result.targetObjs = <<>>
             /\ fn.result.manifestInfos = <<>>
             /\ ~fn.result.revisionsMayHaveChanges
             /\ \A n \in 1..Len(fn.result.calls) : fn.result.calls[n].source <= k
    /\ fn.result.kind = "ok" =>
         /\ Len(fn.result.manifestInfos) = Len(fn.sources)
         /\ \A i \in 1..Len(fn.sources) : fn.result.manifestInfos[i].source = i
         /\ fn.result.targetObjs = ManifestsUpTo(Len(fn.sources))

\* C19 witness: the manifests of the second of two sources fail to parse
\* after the first source was rendered; the error names 2 of 2 and nothing
\* of the first source is returned.
C19_Witness ==
  /\ RepoCalled
  /\ Len(fn.sources) = 2
  /\ RepoFails(fn.env, "unmarshalManifests", 2)
  /\ RepoIssued("GenerateManifest", 1)
  /\ fn.result.kind = "error"
  /\ fn.result.err.ordinal = 2
  /\ fn.result.targetObjs = <<>>
  /\ fn.result.manifestInfos = <<>>

\* The revisions GenerateManifest was called with, as the sources declare them
RenderedAsDeclared ==
  \A n \in 1..Len(fn.result.calls) :
    fn.result.calls[n].op = "GenerateManifest" =>
      fn.result.calls[n].revision.name = fn.sources[fn.result.calls[n].source].TargetRevision.name

\* C20 as stated: when the number of revisions supplied to GetRepoObjs
\* differs from the number of sources and no collaborator fails, the call
\* returns without error and every source is rendered at its own declared
\* target revision; a supplied revision is used for a source only when one
\* revision per source was supplied and the source's is not empty.
C20_MismatchFallsBackToDeclared ==
  (RepoCalled /\ fn.env.fail = NoRepoFault) =>
    /\ Len(fn.revisions) # Len(fn.sources) =>
         /\ fn.result.kind = "ok"
         /\ RenderedAsDeclared
    /\ \A n \in 1..Len(fn.result.calls) :
         (/\ fn.result.calls[n].op = "GenerateManifest"
          /\ fn.result.calls[n].revision.name = "r") =>
           /\ Len(fn.revisions) = Len(fn.sources)
           /\ fn.revisions[fn.result.calls[n].source] # NoRevision

----------------------------------------------------------------------------
(* GetRepoObjs on its own: the path-change check *)

\* Sources of every kind, every sync status of the application, every
\* annotation and every answer of UpdateRevisionForPaths; no collaborator
\* fails
ChangeSources ==
  SeqsUpTo({[TargetRevision |-> Revision("t1"), manifests |-> <<"m1">>, kind |-> "git"],
            [TargetRevision |-> Revision("t2"), manifests |-> <<"m2", "m3">>, kind |-> "chart"],
            [TargetRevision |-> Revision("t1"), manifests |-> <<"m1">>, kind |-> "oci"]},
           MaxSources)
ChangeApps ==
  {SyncedApp(FALSE, r, <<>>) : r \in {"", "s"}}
  \cup {SyncedApp(TRUE, "", rs) : rs \in SeqsUpTo({"", "s"}, MaxSources)}
ChangeAnnotations == {NoAnnotation, Annotation(""), Annotation("paths")}

InitChanges ==
  /\ repoErrorCache = [n \in AppNames |-> NoEntry]
  /\ now = 0
  /\ last = NoCall
  /\ own = NoOwnCall
  /\ fn \in [op : {"GetRepoObjs"}, sources : ChangeSources, revisions : RepoRevisions,
             env : [fail : {NoRepoFault}, annotation : ChangeAnnotations,
                    app : ChangeApps,
                    changes : SUBSET (1..MaxSources),
                    resolves : BOOLEAN],
             called : {FALSE}, result : {Nil}]
  /\ pc = [a \in Apps |-> Idle]
  /\ loaded = [a \in Apps |-> NoEntry]
  /\ actor = Nil

NextChanges == CallGetRepoObjs

SpecChanges == InitChanges /\ [][NextChanges]_vars

\* No synced revision is known for source k
NoSyncedRevision(k) ==
  IF fn.env.app.hasMultipleSources
  THEN k > Len(fn.env.app.Revisions) \/ fn.env.app.Revisions[k] = ""
  ELSE fn.env.app.Revision = ""

\* The path-change check is skipped for source k
CheckSkipped(k) ==
  \/ fn.sources[k].kind \in {"chart", "oci"}
  \/ NoSyncedRevision(k)
  \/ ~fn.env.annotation.exists
  \/ fn.env.annotation.val = ""

\* C28: when GetRepoObjs succeeds, revisionsMayHaveChanges is true exactly
\* when for some source the path-change check was skipped (chart or OCI
\* source, no synced revision for the source, annotation absent or empty)
\* or reported changes; a single chart source with no synced revision gives
\* true.
C28_MayHaveChangesIffSkippedOrChanged ==
  (RepoCalled /\ fn.result.kind = "ok") =>
    /\ fn.result.revisionsMayHaveChanges <=>
         \E k \in 1..Len(fn.sources) : CheckSkipped(k) \/ k \in fn.env.changes
    /\ (/\ Len(fn.sources) = 1
        /\ fn.sources[1].kind = "chart"
        /\ NoSyncedRevision(1)) => fn.result.revisionsMayHaveChanges

\* C28 witness: both of two sources are checked, the first reports changes
\* and the second none; the call returns true.
C28_Witness ==
  /\ RepoCalled
  /\ fn.result.kind = "ok"
  /\ Len(fn.sources) = 2
  /\ ~CheckSkipped(1)
  /\ ~CheckSkipped(2)
  /\ fn.env.changes = {1}
  /\ RepoIssued("UpdateRevisionForPaths", 2)
  /\ fn.result.revisionsMayHaveChanges

----------------------------------------------------------------------------
(* The signature gate on its own *)

\* The keys a project may trust and a commit may be signed with, the payloads
\* a render response may carry, and the responses of a pass
MaxKeys == 2
GateKeys ==
  {KeyString("short", "K1"), KeyString("long", "K1"), KeyString("short", "K2"),
   KeyString("invalid", "K3")}
GatePayloads ==
  {NoVerifyResult, <<"unreadable">>}
  \cup {<<r, k>> : r \in {VerifyResultGood, VerifyResultInvalid, VerifyResultBad,
                          VerifyResultUnknown},
                   k \in GateKeys}
GateResponses == {ManifestResponse("r1", p) : p \in GatePayloads}

InitGate ==
  /\ repoErrorCache = [n \in AppNames |-> NoEntry]
  /\ now = 0
  /\ last = NoCall
  /\ own = NoOwnCall
  /\ fn \in [op : {"signatureConditions"}, signatureKeys : SeqsUpTo(GateKeys, MaxKeys),
             gpgEnabled : BOOLEAN, manifestInfos : SeqsUpTo(GateResponses, MaxSources),
             called : {FALSE}, result : {<<>>}]
  /\ pc = [a \in Apps |-> Idle]
  /\ loaded = [a \in Apps |-> NoEntry]
  /\ actor = Nil

CallSignatureConditions ==
  /\ fn.op = "signatureConditions"
  /\ ~fn.called
  /\ fn' = [fn EXCEPT !.called = TRUE,
                      !.result = signatureConditions(fn.manifestInfos, fn.signatureKeys,
                                                     fn.gpgEnabled, 1)]
  /\ UNCHANGED <<repoErrorCache, now, last, own, pc, loaded, actor>>

NextGate == CallSignatureConditions

SpecGate == InitGate /\ [][NextGate]_vars

GateCalled == fn.op = "signatureConditions" /\ fn.called

\* The project declares a signature key and GPG is enabled
GateRequired == Len(fn.signatureKeys) > 0 /\ fn.gpgEnabled

\* Response i carries a payload whose result is good and whose signing key
\* id is a non-empty key id of one of the project's keys
GoodAndTrusted(i) ==
  LET payload == fn.manifestInfos[i].VerifyResult IN
  /\ payload # NoVerifyResult
  /\ Len(payload) = 2
  /\ payload[1] = VerifyResultGood
  /\ \E k \in 1..Len(fn.signatureKeys) :
       /\ KeyID(fn.signatureKeys[k]) # ""
       /\ KeyID(fn.signatureKeys[k]) = KeyID(payload[2])

\* C21: when the project declares a signature key and GPG is enabled, the
\* pass adds no condition for a render response if and only if the response
\* carries a payload with a good result whose signing key id is a non-empty
\* key id among the project's keys, and exactly one comparison-error
\* condition for every other response; when the project declares no key or
\* GPG is disabled it adds none.
C21_OneConditionUnlessGoodAndTrusted ==
  GateCalled =>
    /\ \A c \in {fn.result[j] : j \in 1..Len(fn.result)} :
         c.Type = ApplicationConditionComparisonError
    /\ GateRequired =>
         Len(fn.result) =
           Cardinality({i \in 1..Len(fn.manifestInfos) : ~GoodAndTrusted(i)})
    /\ ~GateRequired => fn.result = <<>>

\* C21 witness: of two responses the first is signed by a key given in the
\* project by its fingerprint, the second by a key the project does not
\* trust; one condition, naming the second key.
C21_Witness ==
  /\ GateCalled
  /\ GateRequired
  /\ Len(fn.manifestInfos) = 2
  /\ GoodAndTrusted(1)
  /\ fn.signatureKeys = <<KeyString("long", "K1")>>
  /\ fn.manifestInfos[1].VerifyResult = <<VerifyResultGood, KeyString("short", "K1")>>
  /\ fn.manifestInfos[2].VerifyResult = <<VerifyResultGood, KeyString("short", "K2")>>
  /\ Len(fn.result) = 1
  /\ fn.result[1].KeyID = "K2"

----------------------------------------------------------------------------
(* Properties of the signature gate within a pass *)

\* The last pass was given local manifests though signature verification is
\* required
LocalManifestsRefused ==
  Reached /\ last.in.localManifests # "none" /\ last.in.verifySignature

\* C22: when signature verification is required and the pass is given local
\* manifests, none of them is used as a target (the only targets of the
\* result are namespaces synthesized during live-state matching), the
\* comparison error is recorded, the aggregate and every resource's sync
\* status are Unknown, and GetRepoObjs is not called (the application's
\* entry in repoErrorCache is neither stored nor deleted).
C22_LocalManifestsRefused ==
  LocalManifestsRefused =>
    /\ last.out.kind = "result"
    /\ \A i \in Pairs : PairTarget(i) = Nil \/ SynthesizedTarget(i)
    /\ ComparisonError("Cannot use local manifests when signature verification is required")
         \in last.out.conditions
    /\ last.out.syncStatus = SyncStatusCodeUnknown
    /\ \A i \in Pairs : last.out.resources[i].Status = SyncStatusCodeUnknown
    /\ EntryAfter = EntryBefore

\* C22 witness: local manifests were given with one object, an entry of an
\* earlier failure is in repoErrorCache, and the one live object is reported
\* without a target and Unknown.
C22_Witness ==
  /\ LocalManifestsRefused
  /\ Len(last.in.rendered) > 0
  /\ EntryBefore # NoEntry
  /\ EntryAfter = EntryBefore
  /\ Pairs # {}
  /\ \A i \in Pairs : PairTarget(i) = Nil /\ PairLive(i) # Nil
  /\ last.out.syncStatus = SyncStatusCodeUnknown

----------------------------------------------------------------------------
(* Passes over the signature gate, the diff cache and the map order *)

\* How the target phase goes, whatever the project requires
PassModes ==
  {[localManifests |-> "none", repoErr |-> FALSE],
   [localManifests |-> "none", repoErr |-> TRUE],
   [localManifests |-> "ok", repoErr |-> FALSE],
   [localManifests |-> "bad", repoErr |-> FALSE]}

\* The application's spec that declares sources: one source, or a list
SpecOf(sources) ==
  IF Len(sources) = 1 THEN OneSourceSpec
  ELSE [Destination |-> "d", Source |-> "", Sources |-> sources]

PlainPolicy == Policy(TrackingMethodAnnotation, FALSE, FALSE, {})
ManagedPolicy == Policy(TrackingMethodAnnotation, TRUE, FALSE, {})

\* Passes that differ in what the gate reads: the project's keys, whether
\* GPG is enabled and the payload of each source's render response
PassPayloads ==
  {NoVerifyResult,
   <<VerifyResultGood, KeyString("short", "K1")>>,
   <<VerifyResultGood, KeyString("short", "K2")>>,
   <<VerifyResultInvalid, KeyString("short", "K1")>>}
PassResponses ==
  SeqsUpTo({ManifestResponse("r1", p) : p \in PassPayloads}, MaxSources) \ {<<>>}
GateInputs ==
  {Input({}, TRUE, mode, PlainPolicy, scene, d,
         Extras(keys, gpg, [i \in 1..Len(responses) |-> "s"],
                SpecOf([i \in 1..Len(responses) |-> "s"]),
                SyncedAt(SpecOf([i \in 1..Len(responses) |-> "s"]),
                         [i \in 1..Len(responses) |-> "s"], <<>>),
                responses, CacheFriendly, "fwd")) :
     mode \in PassModes, scene \in GraceScenes(InstanceName(TheApp)), d \in {{}, AllNames},
     keys \in {<<>>, <<KeyString("short", "K1")>>}, gpg \in BOOLEAN,
     responses \in PassResponses}

\* Passes that differ in what useDiffCache reads
PassSources == SeqsUpTo({"s"}, MaxSources) \ {<<>>}
CacheInputs ==
  {Input({}, TRUE, mode, PlainPolicy, [rendered |-> <<>>, liveObjs |-> <<>>], {},
         Extras(<<>>, TRUE, sources, SpecOf(sources),
                SyncedAt(SpecOf(sources), sources, recorded),
                [i \in 1..Len(sources) |-> ManifestResponse("r1", NoVerifyResult)],
                cache, "fwd")) :
     mode \in PassModes, sources \in PassSources,
     recorded \in {<<>>, <<"r1">>, <<"r1", "r1">>},
     cache \in [noCache : BOOLEAN, refreshRequested : BOOLEAN, expired : BOOLEAN,
                serverSideDiff : BOOLEAN]}

\* Passes that differ in the scene and in the order in which the maps of the
\* pass are iterated
OrderInputs ==
  {Input(F, TRUE, mode, pol, [rendered |-> r, liveObjs |-> l], d,
         Extras(<<>>, TRUE, <<"s">>, OneSourceSpec,
                SyncedAt(OneSourceSpec, <<"s">>, <<"r1">>),
                <<ManifestResponse("r1", NoVerifyResult)>>, CacheFriendly, mapOrder)) :
     F \in {{}, {"infoErr"}},
     mode \in {m \in PassModes : ~m.repoErr /\ m.localManifests # "bad"},
     pol \in {PlainPolicy, ManagedPolicy},
     r \in SeqsUpTo(TargetPool(InstanceName(TheApp)), MaxTargets),
     l \in LiveLists(InstanceName(TheApp)),
     d \in {{}, AllNames}, mapOrder \in {"fwd", "rev"}}

ComparePass ==
  /\ last = NoCall
  /\ \E in \in GateInputs \cup CacheInputs \cup OrderInputs : Call(TheApp, in)

NextPass == ComparePass \/ DoCompare \/ Return

\* Passes of one application, forced deep comparison
SpecPass == Init /\ [][NextPass]_vars

----------------------------------------------------------------------------
(* Properties of a pass: the signature gate *)

\* The outcome of the last pass had its render responses been others
WithResponses(responses) ==
  CompareAppState(last.app, [last.in EXCEPT !.responses = responses],
                  last.cacheBefore, last.t).out

\* Render responses that differ from those of the last pass in nothing but
\* their verification payloads
OtherPayloads ==
  {rs \in PassResponses :
     /\ Len(rs) = Len(last.in.responses)
     /\ \A i \in 1..Len(rs) : rs[i].Revision = last.in.responses[i].Revision}

\* The result of the last pass carries a condition of the signature gate
GateCondition ==
  \E c \in last.out.conditions :
    /\ c.Type = ApplicationConditionComparisonError
    /\ c.Message \in {"is not signed, but a signature is required",
                      "this key is not allowed in AppProject",
                      "verification result was invalid",
                      "Could not verify commit signature"}

\* The outcome other is of the kind of the last pass's and, if a result,
\* has its aggregate sync status, resource statuses and resolved revisions
SameVerdicts(other) ==
  /\ other.kind = last.out.kind
  /\ last.out.kind = "result" =>
       /\ other.syncStatus = last.out.syncStatus
       /\ other.resources = last.out.resources
       /\ other.revisions = last.out.revisions

----------------------------------------------------------------------------
(* Properties of a pass: the lists of the result *)

\* The last pass ran to its end and returned a result
FullResult == Reached /\ last.out.kind = "result"

\* Entry i of the list e names the object of pair i
Describes(e, i) ==
  /\ e[i].Group = PairObj(i).group
  /\ e[i].Kind = PairObj(i).kind
  /\ e[i].Namespace = PairObj(i).namespace
  /\ e[i].Name = PairObj(i).name

\* C24: in every result of a full pass the list of managed resources and the
\* list of resource statuses have one entry per reconciled pair, entry i of
\* both describes pair i with the same group, kind, namespace and name, and
\* of every pair the target or the live object is not nil.
C24_ListsAlignedWithPairs ==
  FullResult =>
    /\ Len(last.out.Live) = Len(last.out.Target)
    /\ Len(last.out.managedResources) = Len(last.out.Target)
    /\ Len(last.out.resources) = Len(last.out.Target)
    /\ \A i \in Pairs :
         /\ PairTarget(i) # Nil \/ PairLive(i) # Nil
         /\ last.out.managedResources[i].Target = PairTarget(i)
         /\ last.out.managedResources[i].Live = PairLive(i)
         /\ Describes(last.out.managedResources, i)
         /\ Describes(last.out.resources, i)

\* C24 witness: a result of two pairs, a target without a live object and a
\* live hook without a target, each described by its entries.
C24_Witness ==
  /\ FullResult
  /\ Len(last.out.Target) = 2
  /\ PairTarget(1) # Nil
  /\ PairLive(1) = Nil
  /\ PairTarget(2) = Nil
  /\ PairLive(2) # Nil
  /\ last.out.resources[2].Hook
  /\ last.out.managedResources[2].Live = PairLive(2)
  /\ last.out.managedResources[1].Name = PairTarget(1).name

----------------------------------------------------------------------------
(* Properties of a pass: running it twice *)

\* The outcome of the last pass had the maps of the pass (targetByKey of
\* DeduplicateTargetObjects, liveObjByKey) been iterated in the order mapOrder
WithMapOrder(mapOrder) ==
  CompareAppState(last.app, [last.in EXCEPT !.mapOrder = mapOrder],
                  last.cacheBefore, last.t).out

\* The result other has the aggregate, the list of resource statuses and the
\* conditions of the last pass's result
SameResult(other) ==
  /\ other.kind = last.out.kind
  /\ other.syncStatus = last.out.syncStatus
  /\ other.resources = last.out.resources
  /\ other.conditions = last.out.conditions

\* C25: a pass run twice on the same inputs, with no change of external
\* state, returns the same result apart from timing fields: the same
\* aggregate sync status, the same list of resource statuses in the same
\* order and the same set of conditions.
C25_SameResultTwice ==
  FullResult => \A mapOrder \in {"fwd", "rev"} : SameResult(WithMapOrder(mapOrder))


\* The result other has the aggregate and the conditions of the last pass's
\* result and the same resource statuses, in whatever order
SameResultUpToOrder(other) ==
  /\ other.kind = last.out.kind
  /\ other.syncStatus = last.out.syncStatus
  /\ other.conditions = last.out.conditions
  /\ Len(other.resources) = Len(last.out.resources)
  /\ \A e \in {other.resources[i] : i \in 1..Len(other.resources)}
             \cup {last.out.resources[i] : i \in 1..Len(last.out.resources)} :
       Cardinality({i \in 1..Len(other.resources) : other.resources[i] = e})
         = Cardinality({i \in 1..Len(last.out.resources) : last.out.resources[i] = e})

\* C25, as the code has it: a pass run twice on the same inputs, with no
\* change of external state, returns the same aggregate sync status, the
\* same resource statuses and the same set of conditions; the order of the
\* list of resource statuses follows the iteration of the maps of the pass
\* and may differ from one run to the next.
C25_SameResultUpToOrder ==
  FullResult => \A mapOrder \in {"fwd", "rev"} : SameResultUpToOrder(WithMapOrder(mapOrder))

\* C25 witness: two live objects without targets, one of them the
\* application's own; the other iteration order lists them the other way
\* round, with the same statuses and the same aggregate.
C25_Witness ==
  /\ FullResult
  /\ last.in.mapOrder = "fwd"
  /\ Len(last.out.resources) = 2
  /\ last.out.syncStatus = SyncStatusCodeOutOfSync
  /\ last.out.resources[1].Status # last.out.resources[2].Status
  /\ WithMapOrder("rev").resources = <<last.out.resources[2], last.out.resources[1]>>
  /\ WithMapOrder("rev").syncStatus = SyncStatusCodeOutOfSync

----------------------------------------------------------------------------
(* Properties of a pass: the diff cache *)

\* The last pass has no render responses: the target acquisition failed and
\* the pass went on degraded, or local manifests were given
NoRenderResponses ==
  /\ FullResult
  /\ \/ last.in.localManifests # "none"
     \/ last.in.repoErr

\* C30: for an application with at least one source, a pass that has no
\* render responses (target acquisition failed, or local manifests were
\* given) computes the diff with caching off, whatever noCache, the refresh
\* request, the expiry of the status and server-side diff are.
C30_NoResponsesNoDiffCache ==
  (NoRenderResponses /\ Len(last.in.sources) > 0) => ~last.out.useDiffCache

\* C30 witness: the target acquisition failed for an application whose
\* status records no revision and the spec it still declares; nothing else
\* rules the cache out, and it is off.
C30_Witness ==
  /\ NoRenderResponses
  /\ last.in.repoErr
  /\ Len(last.in.sources) > 0
  /\ ~last.in.noCache
  /\ ~last.in.refreshRequested
  /\ ~last.in.expired
  /\ GetRevisions(last.in.sync) = <<>>
  /\ specEqualsCompareTo(last.in.spec, last.in.sources, last.in.sync.ComparedTo)
  /\ ~last.out.useDiffCache

----------------------------------------------------------------------------
(* persistRevisionHistory on its own *)

\* RevisionHistories.LastRevisionHistory()
LastRevisionHistory(history) == history[Len(history)]

\* RevisionHistories.Trunc(n): the last n entries
Trunc(history, n) ==
  IF Len(history) - n > 0
  THEN SubSeq(history, Len(history) - n + 1, Len(history))
  ELSE history

\* v1alpha1.RevisionHistory, without its times and its initiator
RevisionHistory(id, revision, source, revisions, sources) ==
  [ID |-> id, Revision |-> revision, Source |-> source,
   Revisions |-> revisions, Sources |-> sources]

\* Faulty variant: the next ID is the number of entries in the history
persistRevisionHistoryCountsEntries(history, limit, revision, source, revisions, sources, hasMultipleSources) ==
  Trunc(Append(history,
               IF hasMultipleSources
               THEN RevisionHistory(Len(history), "", "", revisions, sources)
               ELSE RevisionHistory(Len(history), revision, source, <<>>, <<>>)),
        limit)

\* persistRevisionHistory(app, revision, source, revisions, sources,
\* hasMultipleSources, startedAt, initiatedBy): app.Status.History after the
\* call, given it before (history) and app.Spec.GetRevisionHistoryLimit()
\* (limit). The patch sent afterwards does not change it.
persistRevisionHistory(history, limit, revision, source, revisions, sources, hasMultipleSources) ==
  LET nextID == IF Len(history) > 0 THEN LastRevisionHistory(history).ID + 1 ELSE 0
  IN Trunc(Append(history,
                  IF hasMultipleSources
                  THEN RevisionHistory(nextID, "", "", revisions, sources)
                  ELSE RevisionHistory(nextID, revision, source, <<>>, <<>>)),
           limit)

MaxCalls == 3   \* calls of persistRevisionHistory on one application
MaxLimit == 2   \* the largest revision history limit configured

\* The application before its first sync: no history. calls counts the
\* calls, appended lists what each call was asked to record, before is the
\* history as the last call found it.
InitHistory ==
  /\ repoErrorCache = [n \in AppNames |-> NoEntry]
  /\ now = 0
  /\ last = NoCall
  /\ own = NoOwnCall
  /\ fn = [op |-> "persistRevisionHistory", History |-> <<>>, limit |-> 0, calls |-> 0,
           appended |-> <<>>, before |-> <<>>, err |-> FALSE]
  /\ pc = [a \in Apps |-> Idle]
  /\ loaded = [a \in Apps |-> NoEntry]
  /\ actor = Nil

\* A sync ends and records itself; the limit is read from the spec at each
\* call, and the patch may fail.
CallPersistRevisionHistory ==
  /\ fn.op = "persistRevisionHistory"
  /\ fn.calls < MaxCalls
  /\ \E limit \in 0..MaxLimit, revision \in {"r1", "r2"}, hasMultipleSources \in BOOLEAN,
        patchErr \in BOOLEAN :
       fn' = [fn EXCEPT
                !.History = persistRevisionHistory(fn.History, limit, revision, "s",
                                                   <<revision, revision>>, <<"s", "s">>,
                                                   hasMultipleSources),
                !.limit = limit,
                !.calls = @ + 1,
                !.before = fn.History,
                !.appended = Append(@, [revision |-> revision,
                                        hasMultipleSources |-> hasMultipleSources]),
                !.err = patchErr]
  /\ UNCHANGED <<repoErrorCache, now, last, own, pc, loaded, actor>>

NextHistory == CallPersistRevisionHistory

SpecHistory == InitHistory /\ [][NextHistory]_vars

HistoryCalled == fn.op = "persistRevisionHistory" /\ fn.calls > 0

\* What the call that appended entry e was asked to record
Recorded(e) ==
  [revision |-> IF e.Revisions # <<>> THEN e.Revisions[1] ELSE e.Revision,
   hasMultipleSources |-> e.Revisions # <<>>]

\* C26: after any sequence of calls of persistRevisionHistory the history
\* in memory has at most as many entries as the revision history limit, the
\* entries kept are the most recently appended ones in the order of their
\* appending, and the ID of the entry appended is one greater than the ID
\* of the entry that was last before the call (0 when the history was empty).
C26_HistoryBoundedAndNumbered ==
  HistoryCalled =>
    /\ Len(fn.History) <= fn.limit
    /\ Len(fn.History) <= Len(fn.appended)
    /\ \A i \in 1..Len(fn.History) :
         Recorded(fn.History[i]) = fn.appended[Len(fn.appended) - Len(fn.History) + i]
    /\ fn.History # <<>> =>
         LastRevisionHistory(fn.History).ID =
           IF fn.before = <<>> THEN 0 ELSE LastRevisionHistory(fn.before).ID + 1
    /\ \A i \in 1..(Len(fn.History) - 1) :
         fn.History[i] = fn.before[Len(fn.before) - Len(fn.History) + 1 + i]

\* C26 witness: the third call on a history kept at two entries drops the
\* first entry and appends the entry with ID 2.
C26_Witness ==
  /\ HistoryCalled
  /\ fn.calls = 3
  /\ fn.limit = 2
  /\ Len(fn.before) = 2
  /\ fn.before[1].ID = 0
  /\ Len(fn.History) = 2
  /\ fn.History[1] = fn.before[2]
  /\ fn.History[2].ID = 2

----------------------------------------------------------------------------
(* Properties of the pairs that are skipped *)

\* Pair i is a hook, is ignored, has a target that hook semantics skip, or
\* has a live object that fails the ownership check
SkippedPair(i) ==
  \/ isHook(PairObj(i))
  \/ Ignore(PairObj(i))
  \/ PairTarget(i) # Nil /\ Skip(PairTarget(i))
  \/ FailsOwnership(i)

\* C27: a pair that is a hook, is ignored, has a skipped target or fails the
\* ownership check has an empty sync status, or Unknown when its kind is not
\* permitted in the project or objects failed to load; it does not make the
\* aggregate OutOfSync (a result whose other resources are all Synced has
\* the aggregate Synced unless objects failed to load or the managed
\* namespace metadata changed); and a live object without target that fails
\* the ownership check is not marked RequiresPruning.
C27_SkippedPairsContributeNothing ==
  (Reached /\ last.out.kind = "result") =>
    /\ \A i \in Pairs :
         SkippedPair(i) =>
           /\ last.out.resources[i].Status =
                IF last.out.failedToLoadObjs \/ NotPermitted(i)
                THEN SyncStatusCodeUnknown ELSE ""
           /\ (PairTarget(i) = Nil /\ FailsOwnership(i)) =>
                ~last.out.resources[i].RequiresPruning
    /\ (/\ PlainResult
        /\ \A i \in Pairs :
             SkippedPair(i) \/ last.out.resources[i].Status = SyncStatusCodeSynced)
         => last.out.syncStatus = SyncStatusCodeSynced

\* C27 witness: a live object that names another object in its tracking id
\* has no target; its status is empty, it is not marked for pruning, and the
\* aggregate is Synced beside a resource that is Synced.
C27_Witness ==
  /\ PlainResult
  /\ last.out.syncStatus = SyncStatusCodeSynced
  /\ \E i \in Pairs :
       /\ PairTarget(i) = Nil
       /\ FailsOwnership(i)
       /\ ~isHook(PairObj(i))
       /\ last.out.resources[i].Status = ""
       /\ ~last.out.resources[i].RequiresPruning
  /\ \E j \in Pairs : last.out.resources[j].Status = SyncStatusCodeSynced

====
